---- MODULE Spec2Model ----
(***************************************************************************)
(* RoDOS: a FAT-style file-system engine over one storage file.            *)
(* The model keeps the engine's in-memory state (FAT, root table, working  *)
(* directory snapshot, cluster buffer) and the bytes of the storage file,  *)
(* and has one action per request handler.  Every engine function is an    *)
(* operator over a machine record m = [fat, root, wd, buf, file, st].      *)
(***************************************************************************)
EXTENDS Integers, Sequences, FiniteSets, TLC

(***************************************************************************)
(* Geometry (BootSector).  The cluster count and the root capacity are     *)
(* scaled down; everything else is the default boot sector.                *)
(***************************************************************************)
ClusterSize == 16
RootEntryCellSize == 32
FatCellSize == 2
ClustersPerBootSector == 1
FatBlocks == 3
RootEntryCount == 2
ClusterCount == FatBlocks * (ClusterSize \div FatCellSize)

Clusters == 0 .. (ClusterCount - 1)

\* DiskManager::new: clusters occupied by the FAT and by the root table
FatClusterCount == (FatCellSize * ClusterCount) \div ClusterSize
RootClusterCount == (RootEntryCellSize * RootEntryCount) \div ClusterSize
ReservedCount == ClustersPerBootSector + FatClusterCount + RootClusterCount
ClustersPerRootEntry == RootEntryCellSize \div ClusterSize
FatCellsPerCluster == ClusterSize \div FatCellSize

(***************************************************************************)
(* Bytes                                                                   *)
(***************************************************************************)
Hi(v) == (v \div 256) % 256
Lo(v) == v % 256
U16(b0, b1) == b0 * 256 + b1
Zeros(n) == [i \in 1..n |-> 0]
Take(s, n) == SubSeq(s, 1, n)
Drop(s, n) == SubSeq(s, n + 1, Len(s))
MinOf(S) == CHOOSE x \in S : \A y \in S : x <= y

\* binding a value, a machine that still runs, and the outcome of a fallible call
With(v, K(_)) == K(v)
IfOk(m, K(_)) == IF m.st # "ok" THEN m ELSE K(m)
AndThen(r, K(_)) == IF r.res # "Ok" THEN r ELSE K(r.m)

RECURSIVE NonZero(_)
NonZero(s) ==
  IF s = <<>> THEN <<>>
  ELSE IF Head(s) = 0 THEN NonZero(Tail(s))
  ELSE <<Head(s)>> \o NonZero(Tail(s))

RECURSIVE SumSizes(_)
SumSizes(es) == IF es = <<>> THEN 0 ELSE Head(es).size + SumSizes(Tail(es))

(***************************************************************************)
(* FatValue and its u16 codec (domain/fat.rs)                              *)
(***************************************************************************)
Free == [tag |-> "Free", n |-> 0]
Reserved == [tag |-> "Reserved", n |-> 0]
Bad == [tag |-> "Bad", n |-> 0]
EndOfChain == [tag |-> "EndOfChain", n |-> 0]
Data(n) == [tag |-> "Data", n |-> n]

FatToU16(v) ==
  CASE v.tag = "Free" -> 0
    [] v.tag = "Reserved" -> 1
    [] v.tag = "Bad" -> 2
    [] v.tag = "Data" -> v.n
    [] v.tag = "EndOfChain" -> 65535

\* a decoding that knows no Bad cell
U16ToFatNoBad(w) ==
  CASE w = 0 -> Free
    [] w = 1 -> Reserved
    [] w = 65535 -> EndOfChain
    [] OTHER -> Data(w)

U16ToFat(w) ==
  CASE w = 0 -> Free
    [] w = 1 -> Reserved
    [] w = 2 -> Bad
    [] w = 65535 -> EndOfChain
    [] OTHER -> Data(w)

(***************************************************************************)
(* Names are byte strings.                                                 *)
(***************************************************************************)
SlashName == <<47>>
DotName == <<46>>
DotDotName == <<46, 46>>
NameA == <<65>>
NameB == <<66>>
NameD == <<68>>
ExtT == <<84>>
NoExt == <<>>

(***************************************************************************)
(* Dates.  Utc::now() is a fixed instant; DateTime::default() is the epoch.*)
(***************************************************************************)
UtcNow == [y |-> 2026, mo |-> 11, d |-> 5, h |-> 12, mi |-> 30, s |-> 10]
DefaultDateTime == [y |-> 1970, mo |-> 1, d |-> 1, h |-> 0, mi |-> 0, s |-> 0]

\* Into<ByteArray>: the two packed 16-bit words
PackTime(t) == ((t.h * 2048) + (t.mi * 32) + (t.s \div 2)) % 65536
PackDate(t) == ((((t.y - 1980) * 512) % 65536) + (t.mo * 32) + t.d) % 65536

IsLeap(y) == (y % 4 = 0 /\ y % 100 # 0) \/ (y % 400 = 0)
DaysIn(y, mo) ==
  IF mo = 2 THEN (IF IsLeap(y) THEN 29 ELSE 28)
  ELSE IF mo \in {4, 6, 9, 11} THEN 30 ELSE 31

\* convert_u16_tuple_to_date_time: the fields, and whether chrono accepts them
UnpackDateTime(date, time) ==
  [y |-> (date \div 512) + 1980, mo |-> (date \div 32) % 16, d |-> date % 32,
   h |-> (time \div 2048) % 32, mi |-> (time \div 32) % 64, s |-> (time % 32) * 2]

ValidDateTime(t) ==
  /\ t.mo \in 1..12
  /\ t.d >= 1 /\ t.d <= DaysIn(t.y, t.mo)
  /\ t.h <= 23 /\ t.mi <= 59 /\ t.s <= 59

(***************************************************************************)
(* FileEntry (domain/file_entry.rs).  Option<T> is a sequence of length    *)
(* zero (None) or one (Some).                                              *)
(***************************************************************************)
None == <<>>
Some(x) == <<x>>

AttrReadOnly == 1
AttrHidden == 2
AttrFile == 4

NewEntry(name, extension, size, first_cluster, attributes, dt, parent, children) ==
  [name |-> name, extension |-> extension, size |-> size,
   first_cluster |-> first_cluster, attributes |-> attributes,
   last_modification_datetime |-> dt,
   parent_entry |-> parent, children_entries |-> children]

DefaultEntry == NewEntry(<<>>, <<>>, 0, 0, 0, DefaultDateTime, None, None)

RootEntry == NewEntry(SlashName, <<>>, 0, 0, AttrReadOnly, UtcNow, None, Some(<<>>))

is_root(e) == e.name = SlashName
is_file(e) == (e.attributes \div 4) % 2 # 0
is_read_only(e) == e.attributes % 2 # 0

\* Into<ByteArray> for FileEntry: 32 bytes
EntryToBytes(e) ==
  LET nm == e.name \o Zeros(8 - Len(e.name))
      ex == e.extension \o Zeros(3 - Len(e.extension))
      sz == <<(e.size \div 16777216) % 256, (e.size \div 65536) % 256,
              (e.size \div 256) % 256, e.size % 256>>
      fc == <<Hi(e.first_cluster), Lo(e.first_cluster)>>
      tm == PackTime(e.last_modification_datetime)
      dt == PackDate(e.last_modification_datetime)
  IN nm \o ex \o sz \o fc \o <<e.attributes>> \o <<Hi(tm), Lo(tm)>>
        \o <<Hi(dt), Lo(dt)>> \o Zeros(10)

\* From<ByteArray> for FileEntry: panics on a date chrono rejects
BytesDecodable(b) ==
  ValidDateTime(UnpackDateTime(U16(b[21], b[22]), U16(b[19], b[20])))

BytesToEntry(b) ==
  NewEntry(NonZero(SubSeq(b, 1, 8)), NonZero(SubSeq(b, 9, 11)),
           ((b[12] * 256 + b[13]) * 256 + b[14]) * 256 + b[15],
           U16(b[16], b[17]), b[18],
           UnpackDateTime(U16(b[21], b[22]), U16(b[19], b[20])),
           None, None)

\* Into<ByteArray> for BootSector: one cluster
BootBytes ==
  <<Hi(ClusterSize), Lo(ClusterSize), Hi(ClusterCount), Lo(ClusterCount),
    Hi(RootEntryCellSize), Lo(RootEntryCellSize), Hi(RootEntryCount), Lo(RootEntryCount),
    Hi(FatCellSize), Lo(FatCellSize), Hi(ClustersPerBootSector), Lo(ClustersPerBootSector)>>
  \o Zeros(ClusterSize - 12)

(***************************************************************************)
(* The machine: the DiskManager's fields, the storage file, and whether    *)
(* the process is still running ("ok"), has panicked or loops forever.     *)
(***************************************************************************)
Panic(m) == [m EXCEPT !.st = "panic"]
Hang(m) == [m EXCEPT !.st = "hang"]

WalkFuel == ClusterCount + 1

FirstIndex(S) == IF S = {} THEN 0 ELSE MinOf(S)

\* position of the first entry with this (name, extension); 0 when absent
FindEntry(table, name, extension) ==
  FirstIndex({i \in 1..Len(table) :
                table[i].name = name /\ table[i].extension = extension})

\* the first entry with this name, of either kind
FindDirOrFile(table, name) ==
  FirstIndex({i \in 1..Len(table) : table[i].name = name})

\* position of the first directory entry with this name; 0 when absent
FindDir(table, name) ==
  FirstIndex({i \in 1..Len(table) : table[i].name = name /\ ~is_file(table[i])})

\* get_next_free_cluster_index_gt: -1 stands for None
\* the second free cluster after the current one, when there are two
get_second_free_cluster_index_gt(fat, current_cluster_index) ==
  With({i \in Clusters : fat[i] = Free /\ i > current_cluster_index},
       LAMBDA S : IF S = {} THEN -1
                  ELSE IF Cardinality(S) = 1 THEN MinOf(S)
                  ELSE MinOf(S \ {MinOf(S)}))

\* the first free cluster at or after the current one
get_next_free_cluster_index_ge(fat, current_cluster_index) ==
  With({i \in Clusters : fat[i] = Free /\ i >= current_cluster_index},
       LAMBDA S : IF S = {} THEN -1 ELSE MinOf(S))

get_next_free_cluster_index_gt(fat, current_cluster_index) ==
  With({i \in Clusters : fat[i] = Free /\ i > current_cluster_index},
       LAMBDA S : IF S = {} THEN -1 ELSE MinOf(S))

CountFree(fat) == Cardinality({i \in Clusters : fat[i] = Free})

\* free_clusters: the walk.  A cell that is neither Data nor EndOfChain sends
\* the walk to cells 0 and 1, which it never leaves; every cell it met is Free
\* by then.
RECURSIVE FreeWalk(_, _)
FreeWalk(fat, cluster_index) ==
  IF cluster_index >= ClusterCount THEN [fat |-> fat, st |-> "panic"]
  ELSE IF fat[cluster_index] = EndOfChain
    THEN [fat |-> [fat EXCEPT ![cluster_index] = Free], st |-> "ok"]
  ELSE IF fat[cluster_index] = Free /\ cluster_index = 0
    THEN [fat |-> fat, st |-> "hang"]
  ELSE FreeWalk([fat EXCEPT ![cluster_index] = Free], FatToU16(fat[cluster_index]))

free_clusters(m, file_entry) ==
  IF m.st # "ok" THEN m
  ELSE With(FreeWalk(m.fat, file_entry.first_cluster),
            LAMBDA r : [m EXCEPT !.fat = r.fat, !.st = r.st])

RECURSIVE SerializeEntries(_)
SerializeEntries(es) ==
  IF es = <<>> THEN <<>> ELSE EntryToBytes(Head(es)) \o SerializeEntries(Tail(es))

\* serialize_directory_root_table (the caller checks children_entries is Some)
serialize_directory_root_table(directory) ==
  SerializeEntries(directory.children_entries[1])

\* sync_directory_root_table_to_storage: the write loop
RECURSIVE WriteDirData(_, _, _)
WriteDirData(m, directory_data, current_cluster_index) ==
  IF directory_data = <<>> THEN m
  ELSE IF Len(directory_data) < ClusterSize \/ current_cluster_index >= ClusterCount
    THEN Panic(m)
  ELSE
    With(get_next_free_cluster_index_gt(m.fat, current_cluster_index),
         LAMBDA next_cluster_index :
           IF next_cluster_index = -1 THEN Panic(m)
           ELSE WriteDirData(
                  [m EXCEPT !.buf[current_cluster_index] = Take(directory_data, ClusterSize),
                            !.fat[current_cluster_index] =
                               IF Len(directory_data) = ClusterSize THEN EndOfChain
                               ELSE U16ToFat(next_cluster_index)],
                  Drop(directory_data, ClusterSize), next_cluster_index))

sync_directory_root_table_to_storage(m, dir_entry) ==
  IfOk(free_clusters(m, dir_entry),
       LAMBDA m1 :
         IF dir_entry.children_entries = None THEN Panic(m1)
         ELSE WriteDirData(m1, serialize_directory_root_table(dir_entry),
                           dir_entry.first_cluster))

\* link_root_table_to_directory: rebuilds a directory from its chain, then
\* writes the directory back.  Results are [m, e] and [m, table].
RECURSIVE LinkWalk(_, _, _, _, _)
RECURSIVE link_root_table_to_directory(_, _, _)
\* the record at a cluster: its second half is in the next cluster of the chain
LinkSecond(m, current_cluster_index) ==
  IF ClustersPerRootEntry # 1 THEN FatToU16(m.fat[current_cluster_index])
  ELSE current_cluster_index

LinkBytes(m, current_cluster_index, second) ==
  IF ClustersPerRootEntry # 1 THEN m.buf[current_cluster_index] \o m.buf[second]
  ELSE m.buf[current_cluster_index]

LinkWalk(m, directory_entry, current_cluster_index, root_table, fuel) ==
  IF m.st # "ok" \/ current_cluster_index = 65535
    THEN [m |-> m, table |-> root_table]
  ELSE IF fuel = 0 THEN [m |-> Hang(m), table |-> root_table]
  ELSE IF current_cluster_index >= ClusterCount
    THEN [m |-> Panic(m), table |-> root_table]
  ELSE
    With(LinkSecond(m, current_cluster_index),
      LAMBDA second :
        IF second >= ClusterCount THEN [m |-> Panic(m), table |-> root_table]
        ELSE
          With(LinkBytes(m, current_cluster_index, second),
            LAMBDA bytes :
              IF ~BytesDecodable(bytes) THEN [m |-> Panic(m), table |-> root_table]
              ELSE
                With([BytesToEntry(bytes) EXCEPT !.parent_entry = Some(directory_entry)],
                  LAMBDA e0 :
                    With(IF is_file(e0) \/ e0.name = DotName \/ e0.name = DotDotName
                           THEN [m |-> m, e |-> e0]
                           ELSE link_root_table_to_directory(m, e0, fuel - 1),
                      LAMBDA r :
                        IF r.m.st # "ok" THEN [m |-> r.m, table |-> root_table]
                        ELSE LinkWalk(r.m, directory_entry, FatToU16(r.m.fat[second]),
                                      Append(root_table, r.e), fuel - 1)))))

link_root_table_to_directory(m, directory_entry, fuel) ==
  With(LinkWalk(m, directory_entry, directory_entry.first_cluster, <<>>, fuel),
    LAMBDA w :
      IF w.m.st # "ok" THEN [m |-> w.m, e |-> directory_entry]
      ELSE With([directory_entry EXCEPT !.size = SumSizes(w.table),
                                        !.children_entries = Some(w.table)],
             LAMBDA e1 :
               [m |-> sync_directory_root_table_to_storage(w.m, e1), e |-> e1]))

\* sync_to_buffer: boot sector, FAT and root table into the reserved clusters
FatClusterBytes(fat, k) ==
  [j \in 1..ClusterSize |->
     With(FatToU16(fat[k * FatCellsPerCluster + ((j - 1) \div 2)]),
          LAMBDA w : IF j % 2 = 1 THEN Hi(w) ELSE Lo(w))]

RootClusterBytes(root, k) ==
  SubSeq(EntryToBytes(root[(k \div ClustersPerRootEntry) + 1]),
         (k % ClustersPerRootEntry) * ClusterSize + 1,
         (k % ClustersPerRootEntry) * ClusterSize + ClusterSize)

sync_to_buffer(m) ==
  [m EXCEPT !.buf =
     [c \in Clusters |->
        IF c < ClustersPerBootSector THEN BootBytes
        ELSE IF c < ClustersPerBootSector + FatClusterCount
          THEN FatClusterBytes(m.fat, c - ClustersPerBootSector)
        ELSE IF c < ReservedCount
          THEN RootClusterBytes(m.root, c - ClustersPerBootSector - FatClusterCount)
        ELSE m.buf[c]]]

\* sync_to_file
sync_to_file(m) ==
  With(sync_to_buffer(m), LAMBDA b : [b EXCEPT !.file = b.buf])

push_sync(m) == IF m.st # "ok" THEN m ELSE sync_to_file(m)

\* sync_from_buffer: the FAT read back from the buffer
FatFromBuffer(buf, fat) ==
  [i \in Clusters |->
     IF i < FatClusterCount * FatCellsPerCluster
       THEN U16ToFat(U16(
              buf[ClustersPerBootSector + (i \div FatCellsPerCluster)]
                 [(i % FatCellsPerCluster) * FatCellSize + 1],
              buf[ClustersPerBootSector + (i \div FatCellsPerCluster)]
                 [(i % FatCellsPerCluster) * FatCellSize + 2]))
       ELSE fat[i]]

\* sync_from_buffer: the root slots, in order; directories are linked as met
RECURSIVE DecodeRoot(_, _, _, _)
SlotBase(slot) == ClustersPerBootSector + FatClusterCount + slot * ClustersPerRootEntry

SlotBytes(snapshot, slot) ==
  IF ClustersPerRootEntry > 1
    THEN snapshot[SlotBase(slot)] \o snapshot[SlotBase(slot) + 1]
    ELSE snapshot[SlotBase(slot)]

DecodeRoot(m, snapshot, slot, table) ==
  IF m.st # "ok" \/ slot = RootEntryCount THEN [m |-> m, table |-> table]
  ELSE IF \A i \in 1..(RootEntryCellSize \div 2) : snapshot[SlotBase(slot)][i] = 0
    THEN DecodeRoot(m, snapshot, slot + 1, Append(table, DefaultEntry))
  ELSE
    With(SlotBytes(snapshot, slot),
      LAMBDA bytes :
        IF ~BytesDecodable(bytes) THEN [m |-> Panic(m), table |-> table]
        ELSE
          With([BytesToEntry(bytes) EXCEPT !.parent_entry = Some(RootEntry)],
            LAMBDA e0 :
              With(IF is_file(e0) THEN [m |-> m, e |-> e0]
                   ELSE link_root_table_to_directory(m, e0, WalkFuel),
                LAMBDA r : DecodeRoot(r.m, snapshot, slot + 1, Append(table, r.e)))))

\* get_path_from_root_to_entry
RECURSIVE get_path_from_root_to_entry(_)
get_path_from_root_to_entry(entry) ==
  IF entry.parent_entry = None THEN <<entry.name>>
  ELSE Append(get_path_from_root_to_entry(entry.parent_entry[1]), entry.name)

\* sync_working_directory_from_root: by names only, first match
RECURSIVE Descend(_, _)
Descend(current_entry, path) ==
  IF path = <<>> THEN Some(current_entry)
  ELSE IF current_entry.children_entries = None THEN None
  ELSE With(FirstIndex({j \in 1..Len(current_entry.children_entries[1]) :
                          current_entry.children_entries[1][j].name = Head(path)}),
         LAMBDA i : IF i = 0 THEN None
                    ELSE Descend(current_entry.children_entries[1][i], Tail(path)))

sync_working_directory_from_root(m) ==
  With(get_path_from_root_to_entry(m.wd),
    LAMBDA path :
      IF Len(path) < 2 THEN Panic(m)
      ELSE With(FirstIndex({j \in 1..Len(m.root) : m.root[j].name = path[2]}),
             LAMBDA i :
               IF i = 0 THEN Panic(m)
               ELSE With(Descend(m.root[i], SubSeq(path, 3, Len(path))),
                      LAMBDA r : IF r = None THEN Panic(m) ELSE [m EXCEPT !.wd = r[1]])))

\* sync_from_buffer(false): what follows the decoding of the root slots
PullStore(r) ==
  IF r.m.st # "ok" THEN r.m
  ELSE With(sync_to_file([r.m EXCEPT !.root = r.table]),
         LAMBDA m2 :
           IF is_root(m2.wd)
             THEN [m2 EXCEPT !.wd.parent_entry = None,
                             !.wd.children_entries = Some(m2.root)]
             ELSE sync_working_directory_from_root(m2))

\* sync_from_buffer(false)
pull_sync(m) ==
  IF m.st # "ok" THEN m
  ELSE PullStore(DecodeRoot([m EXCEPT !.buf = m.file,
                                      !.fat = FatFromBuffer(m.file, m.fat)],
                            m.file, 0, <<>>))

\* DiskManager::new and the first push_sync (main.rs, DISK_ARC on an empty disk)
NewDiskManager ==
  LET m == [fat |-> [i \in Clusters |-> IF i < ReservedCount THEN Reserved ELSE Free],
            root |-> [i \in 1..RootEntryCount |-> DefaultEntry],
            wd |-> RootEntry,
            buf |-> [c \in Clusters |-> Zeros(ClusterSize)],
            file |-> [c \in Clusters |-> Zeros(ClusterSize)],
            st |-> "ok"]
  IN m

\* get_root_table_for_working_directory (None when the snapshot has no children)
get_root_table_for_working_directory(m) ==
  IF is_root(m.wd) THEN Some(m.root) ELSE m.wd.children_entries


(***************************************************************************)
(* Engine operations (infrastructure/i_disk_manager_impl.rs).  Each        *)
(* returns [m, res, at, out]: the machine, the outcome ("Ok" or the error  *)
(* kind), the place the error was raised, and the output of a query.       *)
(***************************************************************************)
Ret(m, res, at) == [m |-> m, res |-> IF m.st = "ok" THEN res ELSE "Abort",
                    at |-> at, out |-> <<>>]
Ok(m) == Ret(m, "Ok", "")
Aborted(m) == Ret(Panic(m), "Abort", "")

CeilDiv(a, b) == (a + b - 1) \div b

\* ContentGenerator::generate for Alpha, Num and Hex
HexChar(k) == IF k < 10 THEN 48 + k ELSE 55 + k
Generate(content_type, size) ==
  [i \in 1..size |->
     CASE content_type = "Alpha" -> 65 + ((i - 1) % 26)
       [] content_type = "Num" -> 48 + ((i - 1) % 10)
       [] content_type = "Hex" -> HexChar((i - 1) % 16)]

\* free_file_entry
free_file_entry(m, file_entry) ==
  IF m.st # "ok" THEN m
  ELSE IF is_root(m.wd)
    THEN With(FindEntry(m.root, file_entry.name, file_entry.extension),
              LAMBDA i : IF i = 0 THEN m ELSE [m EXCEPT !.root[i] = DefaultEntry])
  ELSE IF m.wd.children_entries = None THEN Panic(m)
  ELSE [m EXCEPT !.wd.children_entries[1] =
          SelectSeq(@, LAMBDA e : ~(e.name = file_entry.name
                                    /\ e.extension = file_entry.extension))]

\* a rollback that gives back the entry and leaves the partial chain allocated
WriteRollbackKeepsChain(m, file_entry) == free_file_entry(m, file_entry)

\* write_data_to_disk, the None branch: the chain and the entry are given back
\* and the working directory is written again
WriteRollback(m, file_entry) ==
  IfOk(free_file_entry(free_clusters(m, file_entry), file_entry),
       LAMBDA m3 : sync_directory_root_table_to_storage(m3, m3.wd))

\* write_data_to_disk: the allocation loop
RECURSIVE WriteLoop(_, _, _, _, _)
WriteLoop(m, file_entry, file_data, current_cluster_index, remaining_file_size) ==
  IF remaining_file_size = 0 THEN Ok(m)
  ELSE
    With(get_next_free_cluster_index_gt(m.fat, current_cluster_index),
      LAMBDA next_cluster_index :
        IF next_cluster_index # -1
          THEN IF Len(file_data) < MinOf({ClusterSize, remaining_file_size})
                 THEN Aborted(m)
               ELSE IF remaining_file_size > ClusterSize
                 THEN WriteLoop(
                        [m EXCEPT !.fat[current_cluster_index] = Data(next_cluster_index),
                                  !.buf[current_cluster_index] =
                                     Take(file_data, ClusterSize)],
                        file_entry, Drop(file_data, ClusterSize), next_cluster_index,
                        remaining_file_size - ClusterSize)
               ELSE Ok([m EXCEPT !.fat[current_cluster_index] = EndOfChain,
                                 !.buf[current_cluster_index] =
                                    Take(file_data, remaining_file_size)
                                      \o Zeros(ClusterSize - remaining_file_size)])
          ELSE Ret(WriteRollback([m EXCEPT !.fat[current_cluster_index] = EndOfChain],
                                 file_entry),
                   "OutOfSpace", "alloc"))

write_data_to_disk(m, file_entry, file_data) ==
  WriteLoop(m, file_entry, file_data, file_entry.first_cluster, file_entry.size % 65536)

\* the last cluster of a chain (read-only walk); -1 when the walk never ends,
\* -2 when it leaves the table
RECURSIVE TailWalk(_, _, _)
TailWalk(fat, cluster_index, fuel) ==
  IF cluster_index >= ClusterCount THEN -2
  ELSE IF fat[cluster_index] = EndOfChain THEN cluster_index
  ELSE IF fuel = 0 THEN -1
  ELSE TailWalk(fat, FatToU16(fat[cluster_index]), fuel - 1)

\* append_to_root_table_of_working_dir: writing the record of a sub-directory
RECURSIVE AppendLoop(_, _, _)
AppendLoop(m, file_entry_data, next_cluster_index) ==
  IF Len(file_entry_data) < ClusterSize THEN Panic(m)
  ELSE
    With(get_next_free_cluster_index_gt(m.fat, next_cluster_index),
      LAMBDA nxt :
        IF nxt = -1 THEN Panic(m)
        ELSE IF Len(file_entry_data) = ClusterSize
          THEN [m EXCEPT !.buf[next_cluster_index] = Take(file_entry_data, ClusterSize),
                         !.fat[next_cluster_index] = EndOfChain]
        ELSE AppendLoop(
               [m EXCEPT !.buf[next_cluster_index] = Take(file_entry_data, ClusterSize),
                         !.fat[next_cluster_index] = U16ToFat(nxt)],
               Drop(file_entry_data, ClusterSize), nxt))

\* the sub-directory case: the chain of the working directory grows by one record
AppendToChain(m, m1, file_entry, tail, next_cluster_index) ==
  IF tail = -1 THEN Ret(Hang(m), "Abort", "")
  ELSE IF tail = -2 \/ next_cluster_index = -1 THEN Aborted(m)
  ELSE Ok(AppendLoop([m1 EXCEPT !.fat[tail] = U16ToFat(next_cluster_index)],
                     EntryToBytes(file_entry), next_cluster_index))

append_to_root_table_of_working_dir(m, file_entry) ==
  IF is_root(m.wd)
    THEN With({i \in 1..Len(m.root) : m.root[i].name = <<>>},
              LAMBDA S : IF S # {} THEN Ok([m EXCEPT !.root[MinOf(S)] = file_entry])
                         ELSE Ret(m, "RootFull", "append"))
  ELSE IF m.wd.children_entries = None THEN Aborted(m)
  ELSE AppendToChain(m, [m EXCEPT !.wd.children_entries[1] = Append(@, file_entry)],
                     file_entry, TailWalk(m.fat, m.wd.first_cluster, WalkFuel),
                     get_next_free_cluster_index_gt(m.fat, 0))

\* create_file: the entry is built, its data written, its record appended
CreateEntry(m, file_entry, data) ==
  AndThen(write_data_to_disk(m, file_entry, data),
          LAMBDA m1 : append_to_root_table_of_working_dir(m1, file_entry))

\* the checks with the root-table check moved before the duplicate check
CreateFailureSlotFirst(m, table, req) ==
  IF is_root(m.wd) /\ \A i \in 1..Len(m.root) : m.root[i].name # <<>>
    THEN <<"RootFull", "P2">>
  ELSE IF FindEntry(table, req.name, req.extension) # 0 THEN <<"DuplicateEntry", "P1">>
  ELSE IF CountFree(m.fat) < CeilDiv(req.size, ClusterSize) THEN <<"OutOfSpace", "P3">>
  ELSE <<>>

\* the checks without the one for a (name, extension) pair already in the table
CreateFailureNoDuplicate(m, table, req) ==
  IF is_root(m.wd) /\ \A i \in 1..Len(m.root) : m.root[i].name # <<>>
    THEN <<"RootFull", "P2">>
  ELSE IF CountFree(m.fat) < CeilDiv(req.size, ClusterSize) THEN <<"OutOfSpace", "P3">>
  ELSE <<>>

\* create_file: the three checks made before anything is written
CreateFailure(m, table, req) ==
  IF FindEntry(table, req.name, req.extension) # 0 THEN <<"DuplicateEntry", "P1">>
  ELSE IF is_root(m.wd) /\ \A i \in 1..Len(m.root) : m.root[i].name # <<>>
    THEN <<"RootFull", "P2">>
  ELSE IF CountFree(m.fat) < CeilDiv(req.size, ClusterSize) THEN <<"OutOfSpace", "P3">>
  ELSE <<>>

\* create_file
create_file(m, req) ==
  With(get_root_table_for_working_directory(m),
    LAMBDA tbl :
      IF tbl = None THEN Aborted(m)
      ELSE IF CreateFailure(m, tbl[1], req) # <<>>
        THEN Ret(m, CreateFailure(m, tbl[1], req)[1], CreateFailure(m, tbl[1], req)[2])
      ELSE
        With(get_next_free_cluster_index_gt(m.fat, 0),
          LAMBDA first_cluster :
            IF first_cluster = -1 THEN Aborted(m)
            ELSE CreateEntry(m, NewEntry(req.name, req.extension, req.size, first_cluster,
                                         req.attributes, req.dt, Some(m.wd), None),
                             req.data)))

\* String::from_utf8_lossy, byte by byte: a byte outside ASCII becomes U+FFFD
Lossy(bytes) == [i \in 1..Len(bytes) |-> IF bytes[i] < 128 THEN bytes[i] ELSE 65533]

\* get_file_content: the chain walk; the result is [st, content, last]
RECURSIVE CatWalk(_, _, _, _, _)
CatWalk(fat, buf, current_cluster, content, fuel) ==
  IF current_cluster >= ClusterCount THEN [st |-> "panic", content |-> content, last |-> 0]
  ELSE IF fat[current_cluster] = EndOfChain
    THEN [st |-> "ok", content |-> content, last |-> current_cluster]
  ELSE IF fuel = 0 THEN [st |-> "hang", content |-> content, last |-> 0]
  ELSE CatWalk(fat, buf, FatToU16(fat[current_cluster]),
               content \o Lossy(Take(buf[current_cluster], ClusterSize)), fuel - 1)

\* what the last cluster would contribute without the full-cluster case
RemainderOnly(size) == size % ClusterSize

\* get_file_content: what the last cluster of the chain contributes
RemainingContentSize(size) ==
  IF size # 0 /\ size % ClusterSize = 0 THEN (size % ClusterSize) + ClusterSize
  ELSE size % ClusterSize

CatEntry(m, file_entry) ==
  With(CatWalk(m.fat, m.buf, file_entry.first_cluster, <<>>, WalkFuel),
    LAMBDA w :
      IF w.st # "ok" THEN Ret([m EXCEPT !.st = w.st], "Abort", "")
      ELSE [m |-> m, res |-> "Ok", at |-> "",
            out |-> w.content
                      \o Lossy(Take(m.buf[w.last], RemainingContentSize(file_entry.size)))])

get_file_content(m, name, extension) ==
  With(get_root_table_for_working_directory(m),
    LAMBDA tbl :
      IF tbl = None THEN Aborted(m)
      ELSE With(FirstIndex({j \in 1..Len(tbl[1]) :
                              /\ tbl[1][j].name = name
                              /\ tbl[1][j].extension = extension
                              /\ is_file(tbl[1][j])}),
             LAMBDA i : IF i = 0 THEN Ret(m, "NotFound", "")
                        ELSE CatEntry(m, tbl[1][i])))

\* rename_file: the entry at position i takes its new name
RenameAt(m, req, i) ==
  IF is_root(m.wd)
    THEN Ok([m EXCEPT !.root[i].name = req.new_name,
                      !.root[i].extension = req.new_extension,
                      !.root[i].last_modification_datetime = UtcNow])
  ELSE With([m EXCEPT !.wd.children_entries[1][i].name = req.new_name,
                      !.wd.children_entries[1][i].extension = req.new_extension,
                      !.wd.children_entries[1][i].last_modification_datetime = UtcNow],
         LAMBDA m1 : Ok(sync_directory_root_table_to_storage(m1, m1.wd)))

\* a rename that looks at the read-only bit before the new name
rename_file_read_only_first(m, req) ==
  With(get_root_table_for_working_directory(m),
    LAMBDA tbl :
      IF tbl = None THEN Aborted(m)
      ELSE IF FindEntry(tbl[1], req.old_name, req.old_extension) = 0
        THEN Ret(m, "NotFound", "")
      ELSE With(FindEntry(tbl[1], req.old_name, req.old_extension),
             LAMBDA i : IF is_read_only(tbl[1][i]) THEN Ret(m, "ReadOnly", "")
                        ELSE IF FindEntry(tbl[1], req.new_name, req.new_extension) # 0
                          THEN Ret(m, "DuplicateEntry", "")
                        ELSE RenameAt(m, req, i)))

\* rename_file
rename_file(m, req) ==
  With(get_root_table_for_working_directory(m),
    LAMBDA tbl :
      IF tbl = None THEN Aborted(m)
      ELSE IF FindEntry(tbl[1], req.old_name, req.old_extension) = 0
        THEN Ret(m, "NotFound", "")
      ELSE IF FindEntry(tbl[1], req.new_name, req.new_extension) # 0
        THEN Ret(m, "DuplicateEntry", "")
      ELSE With(FindEntry(tbl[1], req.old_name, req.old_extension),
             LAMBDA i : IF is_read_only(tbl[1][i]) THEN Ret(m, "ReadOnly", "")
                        ELSE RenameAt(m, req, i)))

\* change_working_directory and change_working_directory_to_root
RECURSIVE change_working_directory(_, _, _)
RECURSIVE change_working_directory_to_root(_, _)
change_working_directory(m, directory_name, fuel) ==
  With(get_root_table_for_working_directory(m),
    LAMBDA tbl :
      IF m.st # "ok" THEN Ret(m, "Abort", "")
      ELSE IF directory_name # SlashName /\ tbl = None THEN Aborted(m)
      ELSE IF directory_name # SlashName /\ FindDir(tbl[1], directory_name) = 0
        THEN Ret(m, "NotFound", "")
      ELSE IF directory_name = SlashName THEN change_working_directory_to_root(m, fuel)
      ELSE IF directory_name = DotName THEN Ok(m)
      ELSE IF directory_name = DotDotName
        THEN IF m.wd.parent_entry = None THEN Aborted(m)
             ELSE Ok([m EXCEPT !.wd = m.wd.parent_entry[1]])
      ELSE Ok([m EXCEPT !.wd = tbl[1][FindDir(tbl[1], directory_name)]]))

change_working_directory_to_root(m, fuel) ==
  IF m.st # "ok" THEN Ret(m, "Abort", "")
  ELSE IF is_root(m.wd) THEN Ok(m)
  ELSE IF fuel = 0 THEN Ret(Hang(m), "Abort", "")
  ELSE AndThen(change_working_directory(pull_sync(m), DotDotName, fuel - 1),
               LAMBDA m1 : change_working_directory_to_root(m1, fuel - 1))

\* delete_file
RECURSIVE delete_file(_, _, _, _)
RECURSIVE DeleteChildren(_, _, _)
DeleteChildren(m, root_table, fuel) ==
  IF root_table = <<>> THEN Ok(m)
  ELSE IF Head(root_table).name = DotName \/ Head(root_table).name = DotDotName
    THEN DeleteChildren(m, Tail(root_table), fuel)
  ELSE AndThen(delete_file(m, Head(root_table).name, Head(root_table).extension, fuel),
               LAMBDA m1 : DeleteChildren(m1, Tail(root_table), fuel))

\* delete_file: the chain and the entry are freed after a reload from storage
DeleteEntry(m, file_entry) ==
  With(free_file_entry(IfOk(pull_sync(m), LAMBDA m1 : free_clusters(m1, file_entry)),
                       file_entry),
    LAMBDA m3 :
      IF m3.st # "ok" THEN Ret(m3, "Abort", "")
      ELSE IF ~is_root(m3.wd) THEN Ok(sync_directory_root_table_to_storage(m3, m3.wd))
      ELSE Ok(m3))

\* delete_file, the directory case: into the directory, its children, back out
DeleteInside(m, fuel) ==
  With(get_root_table_for_working_directory(m),
    LAMBDA tbl2 : IF tbl2 = None THEN Aborted(m) ELSE DeleteChildren(m, tbl2[1], fuel))

DeleteDirectory(m, file_name, fuel) ==
  AndThen(AndThen(change_working_directory(pull_sync(m), file_name, WalkFuel),
                  LAMBDA m1 : DeleteInside(m1, fuel)),
          LAMBDA m2 : change_working_directory(pull_sync(m2), DotDotName, WalkFuel))

delete_file(m, file_name, file_extension, fuel) ==
  With(get_root_table_for_working_directory(m),
    LAMBDA tbl :
      IF m.st # "ok" THEN Ret(m, "Abort", "")
      ELSE IF tbl = None THEN Aborted(m)
      ELSE IF FindEntry(tbl[1], file_name, file_extension) = 0
        THEN Ret(m, "NotFound", "")
      ELSE IF ~is_file(tbl[1][FindEntry(tbl[1], file_name, file_extension)]) /\ fuel = 0
        THEN Ret(Hang(m), "Abort", "")
      ELSE AndThen(IF is_file(tbl[1][FindEntry(tbl[1], file_name, file_extension)])
                     THEN Ok(m)
                     ELSE DeleteDirectory(m, file_name, fuel - 1),
                   LAMBDA m1 :
                     DeleteEntry(m1, tbl[1][FindEntry(tbl[1], file_name, file_extension)])))

\* a directory whose pseudo-entries are read-only but not hidden
DirectoryEntryVisibleDots(m, req, first_cluster_index) ==
  With(NewEntry(req.name, <<>>, RootEntryCellSize * 2, first_cluster_index,
                req.attributes, req.dt, Some(m.wd), Some(<<>>)),
    LAMBDA dir0 :
      [dir0 EXCEPT !.children_entries =
         Some(<<[dir0 EXCEPT !.name = DotName, !.attributes = AttrReadOnly],
                [m.wd EXCEPT !.name = DotDotName, !.extension = <<>>,
                             !.attributes = AttrReadOnly]>>)])

\* make_directory: the new directory with its "." and ".." records
DirectoryEntry(m, req, first_cluster_index) ==
  With(NewEntry(req.name, <<>>, RootEntryCellSize * 2, first_cluster_index,
                req.attributes, req.dt, Some(m.wd), Some(<<>>)),
    LAMBDA dir0 :
      [dir0 EXCEPT !.children_entries =
         Some(<<[dir0 EXCEPT !.name = DotName, !.attributes = AttrReadOnly + AttrHidden],
                [m.wd EXCEPT !.name = DotDotName, !.extension = <<>>,
                             !.attributes = AttrReadOnly + AttrHidden]>>)])

\* make_directory
make_directory(m, req) ==
  With(get_root_table_for_working_directory(m),
    LAMBDA tbl :
      IF tbl = None THEN Aborted(m)
      ELSE IF FindDir(tbl[1], req.name) # 0 THEN Ret(m, "DuplicateEntry", "")
      ELSE IF CountFree(m.fat) = 0 THEN Ret(m, "OutOfSpace", "")
      ELSE With(DirectoryEntry(m, req, MinOf({i \in Clusters : m.fat[i] = Free})),
             LAMBDA dir_file_entry :
               CreateEntry(m, dir_file_entry,
                           serialize_directory_root_table(dir_file_entry))))

\* tokens that flip their bit whatever it is
ApplyAttributeToggling(attributes, token) ==
  CASE token = "ReadOnly" -> IF attributes % 2 = 0 THEN attributes + 1 ELSE attributes - 1
    [] token = "ReadWrite" -> IF attributes % 2 # 0 THEN attributes - 1 ELSE attributes + 1
    [] token = "Hidden" ->
         IF (attributes \div 2) % 2 = 0 THEN attributes + 2 ELSE attributes - 2
    [] token = "Visible" ->
         IF (attributes \div 2) % 2 # 0 THEN attributes - 2 ELSE attributes + 2
    [] OTHER -> attributes

\* FileEntry::apply_attributes, one token and a token list
ApplyAttribute(attributes, token) ==
  CASE token = "ReadOnly" -> IF attributes % 2 = 0 THEN attributes + 1 ELSE attributes
    [] token = "ReadWrite" -> IF attributes % 2 # 0 THEN attributes - 1 ELSE attributes
    [] token = "Hidden" ->
         IF (attributes \div 2) % 2 = 0 THEN attributes + 2 ELSE attributes
    [] token = "Visible" ->
         IF (attributes \div 2) % 2 # 0 THEN attributes - 2 ELSE attributes
    [] OTHER -> attributes

RECURSIVE apply_attributes(_, _)
apply_attributes(attributes, tokens) ==
  IF tokens = <<>> THEN attributes
  ELSE apply_attributes(ApplyAttribute(attributes, Head(tokens)), Tail(tokens))

\* a set_attributes that builds the byte from the tokens alone
SetAttributesAtFromTokens(m, req, i) ==
  IF is_root(m.wd)
    THEN Ok([m EXCEPT !.root[i].attributes = apply_attributes(0, req.attributes),
                      !.root[i].last_modification_datetime = UtcNow])
  ELSE With([m EXCEPT !.wd.children_entries[1][i].attributes =
                         apply_attributes(0, req.attributes),
                      !.wd.children_entries[1][i].last_modification_datetime = UtcNow],
         LAMBDA m1 : Ok(sync_directory_root_table_to_storage(m1, m1.wd)))

\* set_attributes: the entry at position i
SetAttributesAt(m, req, i) ==
  IF is_root(m.wd)
    THEN Ok([m EXCEPT !.root[i].attributes = apply_attributes(@, req.attributes),
                      !.root[i].last_modification_datetime = UtcNow])
  ELSE With([m EXCEPT !.wd.children_entries[1][i].attributes =
                         apply_attributes(@, req.attributes),
                      !.wd.children_entries[1][i].last_modification_datetime = UtcNow],
         LAMBDA m1 : Ok(sync_directory_root_table_to_storage(m1, m1.wd)))

\* set_attributes
set_attributes(m, req) ==
  With(get_root_table_for_working_directory(m),
    LAMBDA tbl :
      IF tbl = None THEN Aborted(m)
      ELSE With(FindEntry(tbl[1], req.name, req.extension),
             LAMBDA i : IF i = 0 THEN Ret(m, "NotFound", "")
                        ELSE SetAttributesAt(m, req, i)))

\* FileEntry::is_hidden
is_hidden(e) == (e.attributes \div 2) % 2 # 0

\* the order of strings, and of date-times taken field by field
RECURSIVE LexLess(_, _)
LexLess(a, b) ==
  IF b = <<>> THEN FALSE
  ELSE IF a = <<>> THEN TRUE
  ELSE IF a[1] # b[1] THEN a[1] < b[1]
  ELSE LexLess(Tail(a), Tail(b))

DateKey(dt) == <<dt.y, dt.mo, dt.d, dt.h, dt.mi, dt.s>>

\* list_files: the comparison each sort key hands to sort_by
SortsBefore(a, b, sort) ==
  CASE sort = "NameAsc" -> LexLess(a.name, b.name)
    [] sort = "NameDesc" -> LexLess(b.name, a.name)
    [] sort = "DateAsc" -> LexLess(DateKey(a.last_modification_datetime),
                                   DateKey(b.last_modification_datetime))
    [] sort = "DateDesc" -> LexLess(DateKey(b.last_modification_datetime),
                                    DateKey(a.last_modification_datetime))
    [] sort = "SizeAsc" -> a.size < b.size
    [] sort = "SizeDesc" -> b.size < a.size
    [] OTHER -> FALSE

\* sort_by keeps the order of entries that compare equal
RECURSIVE SortInsert(_, _, _)
SortInsert(sorted, e, sort) ==
  IF sorted = <<>> THEN <<e>>
  ELSE IF SortsBefore(e, Head(sorted), sort) THEN <<e>> \o sorted
  ELSE <<Head(sorted)>> \o SortInsert(Tail(sorted), e, sort)

RECURSIVE SortBy(_, _, _)
SortBy(done, entries, sort) ==
  IF entries = <<>> THEN done
  ELSE SortBy(SortInsert(done, Head(entries), sort), Tail(entries), sort)

\* list_files: one filter on one entry
FilterKeeps(filter, file_entry) ==
  CASE filter.type = "Name" -> file_entry.name = filter.s
    [] filter.type = "Extension" -> file_entry.extension = filter.s
    [] filter.type = "Files" -> is_file(file_entry)
    [] filter.type = "Directories" -> ~is_file(file_entry)
    [] filter.type = "All" -> ~is_hidden(file_entry)
    [] OTHER -> TRUE

\* list_files: the entries that are kept
ListKeeps(request, file_entry) ==
  /\ file_entry.name # <<>>
  /\ IF request.filters # <<>>
       THEN \A i \in 1..Len(request.filters) : FilterKeeps(request.filters[i], file_entry)
       ELSE ~is_hidden(file_entry)

\* list_files
list_files(m, request) ==
  With(get_root_table_for_working_directory(m),
    LAMBDA tbl :
      IF tbl = None THEN Aborted(m)
      ELSE With(SelectSeq(tbl[1], LAMBDA file_entry : ListKeeps(request, file_entry)),
             LAMBDA file_entries :
               [Ok(m) EXCEPT !.out = IF request.sort = None THEN file_entries
                                     ELSE SortBy(<<>>, file_entries, request.sort[1])]))

\* get_working_directory_full_path: the names from the working directory up
\* to the entry that has no parent
RECURSIVE PathDirs(_)
PathDirs(e) ==
  <<e.name>> \o (IF e.parent_entry = None THEN <<>> ELSE PathDirs(e.parent_entry[1]))

Reverse(s) == [i \in 1..Len(s) |-> s[Len(s) + 1 - i]]

\* join("/")
RECURSIVE Join(_)
Join(dirs) ==
  IF dirs = <<>> THEN <<>>
  ELSE IF Len(dirs) = 1 THEN dirs[1]
  ELSE dirs[1] \o SlashName \o Join(Tail(dirs))

\* a path that keeps the name of root in it
get_working_directory_full_path_with_root(m) == Join(Reverse(PathDirs(m.wd)))

\* get_working_directory_full_path
get_working_directory_full_path(m) ==
  With(PathDirs(m.wd),
    LAMBDA dirs :
      Join(Reverse(IF ~is_root(m.wd) THEN SubSeq(dirs, 1, Len(dirs) - 1) \o <<<<>>>>
                   ELSE dirs)))

\* change_working_directory_to
RECURSIVE CdAlong(_, _)
CdAlong(m, path) ==
  IF path = <<>> THEN Ok(m)
  ELSE AndThen(change_working_directory(pull_sync(m), Head(path), WalkFuel),
               LAMBDA m1 : CdAlong(m1, Tail(path)))

change_working_directory_to(m, dir_entry) ==
  AndThen(change_working_directory_to_root(m, WalkFuel),
          LAMBDA m1 : CdAlong(m1, Tail(get_path_from_root_to_entry(dir_entry))))

\* the temp buffer file: the UTF-8 bytes of the string cat returned
RECURSIVE Utf8Bytes(_)
Utf8Bytes(str) ==
  IF str = <<>> THEN <<>>
  ELSE IF Len(str) = 1 THEN (IF str[1] < 128 THEN <<str[1]>> ELSE <<239, 191, 189>>)
  ELSE Utf8Bytes(SubSeq(str, 1, Len(str) \div 2))
       \o Utf8Bytes(SubSeq(str, Len(str) \div 2 + 1, Len(str)))

\* inflate_directory_tree_inline
RECURSIVE inflate_directory_tree_inline(_, _, _, _)
RECURSIVE InflateChildren(_, _, _, _)
\* a file of the source: read in the source directory, created in the new one
InflateCreate(c, entry, dest) ==
  IF c.res # "Ok" THEN c
  ELSE AndThen(change_working_directory_to(c.m, dest),
               LAMBDA m1 :
                 create_file(m1, [name |-> entry.name, extension |-> entry.extension,
                                  size |-> Len(Utf8Bytes(c.out)),
                                  attributes |-> entry.attributes,
                                  dt |-> UtcNow, data |-> Utf8Bytes(c.out)]))

InflateFile(m, src_dir_entry, entry) ==
  AndThen(InflateCreate(
            With(change_working_directory_to(m, src_dir_entry),
                 LAMBDA g : IF g.res # "Ok" THEN g
                            ELSE get_file_content(g.m, entry.name, entry.extension)),
            entry, m.wd),
          LAMBDA m1 : Ok(push_sync(m1)))

InflateChildren(m, src_dir_entry, entries, fuel) ==
  IF entries = <<>> THEN Ok(m)
  ELSE IF Head(entries).name = DotName \/ Head(entries).name = DotDotName
    THEN InflateChildren(m, src_dir_entry, Tail(entries), fuel)
  ELSE IF ~is_file(Head(entries)) /\ fuel = 0 THEN Ret(Hang(m), "Abort", "")
  ELSE AndThen(
         IF is_file(Head(entries)) THEN InflateFile(m, src_dir_entry, Head(entries))
         ELSE AndThen(make_directory(pull_sync(m),
                        [name |-> Head(entries).name,
                         attributes |-> Head(entries).attributes, dt |-> UtcNow]),
                LAMBDA m1 : inflate_directory_tree_inline(push_sync(m1), Head(entries),
                                                          Head(entries).name, fuel - 1)),
         LAMBDA m2 : InflateChildren(m2, src_dir_entry, Tail(entries), fuel))

inflate_directory_tree_inline(m, src_dir_entry, dest_dir_name, fuel) ==
  AndThen(AndThen(change_working_directory(pull_sync(m), dest_dir_name, WalkFuel),
                  LAMBDA m1 :
                    InflateChildren(m1, src_dir_entry,
                                    IF src_dir_entry.children_entries = None THEN <<>>
                                    ELSE src_dir_entry.children_entries[1], fuel)),
          LAMBDA m2 : change_working_directory(pull_sync(m2), DotDotName, WalkFuel))

\* copy_file: the lockstep walk over the source chain
RECURSIVE CopyLoop(_, _, _)
CopyLoop(m, current_src_cluster_index, current_dest_cluster_index) ==
  IF current_src_cluster_index >= ClusterCount THEN Panic(m)
  ELSE IF m.fat[current_src_cluster_index] = EndOfChain
    THEN [m EXCEPT !.buf[current_dest_cluster_index] = m.buf[current_src_cluster_index],
                   !.fat[current_dest_cluster_index] = EndOfChain]
  ELSE
    With(get_next_free_cluster_index_gt(m.fat, current_dest_cluster_index),
      LAMBDA next_dest_cluster_index :
        IF next_dest_cluster_index = -1 THEN Panic(m)
        ELSE With([m EXCEPT !.buf[current_dest_cluster_index] =
                               m.buf[current_src_cluster_index],
                            !.fat[current_dest_cluster_index] =
                               Data(next_dest_cluster_index)],
               LAMBDA m1 :
                 CopyLoop(m1, FatToU16(m1.fat[current_src_cluster_index]),
                          next_dest_cluster_index)))

\* copy_file, a file: the chain is copied and the new entry appended
CopyChain(m, req, src_file_entry, dest_file_first_cluster) ==
  IF dest_file_first_cluster = -1 THEN Aborted(m)
  ELSE With(CopyLoop(m, src_file_entry.first_cluster, dest_file_first_cluster),
         LAMBDA m1 :
           IF m1.st # "ok" THEN Ret(m1, "Abort", "")
           ELSE append_to_root_table_of_working_dir(m1,
                  NewEntry(req.dest_name, req.dest_extension, src_file_entry.size,
                           dest_file_first_cluster, src_file_entry.attributes, UtcNow,
                           src_file_entry.parent_entry, src_file_entry.children_entries)))

\* copy_file, a directory: a new directory, then the source tree into it
CopyTree(m, req, src_file_entry) ==
  AndThen(make_directory(m, [name |-> req.dest_name,
                             attributes |-> src_file_entry.attributes, dt |-> UtcNow]),
          LAMBDA m1 : inflate_directory_tree_inline(push_sync(m1), src_file_entry,
                                                    req.dest_name, WalkFuel))

CopyEntry(m, req, src_file_entry) ==
  IF CountFree(m.fat) < CeilDiv(src_file_entry.size, ClusterSize)
    THEN Ret(m, "OutOfSpace", "")
  ELSE IF is_file(src_file_entry)
    THEN CopyChain(m, req, src_file_entry, get_next_free_cluster_index_gt(m.fat, 0))
  ELSE CopyTree(m, req, src_file_entry)

\* copy_file
copy_file(m, req) ==
  With(get_root_table_for_working_directory(m),
    LAMBDA tbl :
      IF tbl = None THEN Aborted(m)
      ELSE IF FindEntry(tbl[1], req.src_name, req.src_extension) = 0
        THEN Ret(m, "NotFound", "")
      ELSE IF FindEntry(tbl[1], req.dest_name, req.dest_extension) # 0
        THEN Ret(m, "DuplicateEntry", "")
      ELSE IF is_root(m.wd) /\ \A i \in 1..Len(m.root) : m.root[i].name # <<>>
        THEN Ret(m, "RootFull", "")
      ELSE CopyEntry(m, req, tbl[1][FindEntry(tbl[1], req.src_name, req.src_extension)]))

CopyRequest(sn, se, dn, de) ==
  [src_name |-> sn, src_extension |-> se, dest_name |-> dn, dest_extension |-> de]

(***************************************************************************)
(* Request handlers (application/...): the syncs around the engine call.   *)
(***************************************************************************)
(* Defragmentation: the engine that serves the request (s) is read, and a  *)
(* second DiskManager (n) is built in memory and written over the storage  *)
(* file at the end.                                                        *)
(***************************************************************************)
Pair(s, n, res) ==
  [s |-> IF n.st # "ok" /\ s.st = "ok" THEN [s EXCEPT !.st = n.st] ELSE s,
   n |-> n,
   res |-> IF s.st # "ok" \/ n.st # "ok" THEN "Abort" ELSE res]

\* defragment_disk and inflate_directory_tree: one entry of the table that is
\* walked; inside a directory the engine pulls before it reads a file
RECURSIVE inflate_directory_tree(_, _, _)
RECURSIVE DefragEntries(_, _, _, _)
DefragFile(p, entry, inside) ==
  With(get_file_content(IF inside THEN pull_sync(p.s) ELSE p.s, entry.name, entry.extension),
    LAMBDA c :
      IF c.res # "Ok" THEN Pair(c.m, p.n, c.res)
      ELSE With(create_file(p.n, [name |-> entry.name, extension |-> entry.extension,
                                  size |-> Len(Utf8Bytes(c.out)),
                                  attributes |-> entry.attributes,
                                  dt |-> entry.last_modification_datetime,
                                  data |-> Utf8Bytes(c.out)]),
             LAMBDA r : Pair(c.m, r.m, r.res)))

DefragDirectory(p, entry, fuel) ==
  With(make_directory(p.n, [name |-> entry.name, attributes |-> entry.attributes,
                            dt |-> entry.last_modification_datetime]),
    LAMBDA r :
      IF r.res # "Ok" THEN Pair(p.s, r.m, r.res)
      ELSE IF fuel = 0 THEN Pair(Hang(p.s), r.m, "Abort")
      ELSE inflate_directory_tree(Pair(p.s, r.m, "Ok"), entry, fuel - 1))

DefragEntries(p, entries, inside, fuel) ==
  IF entries = <<>> \/ p.res # "Ok" THEN p
  ELSE IF (IF inside THEN Head(entries).name \in {DotName, DotDotName}
           ELSE Head(entries).name = <<>>)
    THEN DefragEntries(p, Tail(entries), inside, fuel)
  ELSE DefragEntries(IF is_file(Head(entries)) THEN DefragFile(p, Head(entries), inside)
                     ELSE DefragDirectory(p, Head(entries), fuel),
                     Tail(entries), inside, fuel)

\* inflate_directory_tree: both engines enter the directory and leave it
DefragCd(p, directory_name) ==
  With(change_working_directory(p.n, directory_name, WalkFuel),
    LAMBDA g :
      IF g.res # "Ok" THEN Pair(p.s, g.m, g.res)
      ELSE With(change_working_directory(pull_sync(p.s), directory_name, WalkFuel),
             LAMBDA h : Pair(h.m, g.m, h.res)))

inflate_directory_tree(p, dir_entry, fuel) ==
  With(DefragCd(p, dir_entry.name),
    LAMBDA p1 :
      IF p1.res # "Ok" THEN p1
      ELSE With(DefragEntries(p1, IF dir_entry.children_entries = None THEN <<>>
                                  ELSE dir_entry.children_entries[1], TRUE, fuel),
             LAMBDA p2 : IF p2.res # "Ok" THEN p2 ELSE DefragCd(p2, DotDotName)))

\* defragment_disk
defragment_disk(m) ==
  With(change_working_directory_to_root(m, WalkFuel),
    LAMBDA g :
      IF g.res # "Ok" THEN g
      ELSE With(DefragEntries(Pair(g.m, [NewDiskManager EXCEPT !.file = g.m.file], "Ok"),
                              g.m.root, FALSE, WalkFuel),
             LAMBDA q :
               IF q.res # "Ok" THEN Ret(q.s, q.res, "")
               ELSE Ok([q.s EXCEPT !.file = push_sync(q.n).file])))

(***************************************************************************)
(* Formatting.  fmt builds a second DiskManager from a boot sector of its  *)
(* own and writes it over the storage file, so the layout is computed here *)
(* from a boot sector record instead of the fixed geometry above; the      *)
(* storage file is the sequence of its bytes.                              *)
(***************************************************************************)
\* BootSector, with the cell sizes and counts of BootSector::default
BootSector(cluster_size, cluster_count) ==
  [cluster_size |-> cluster_size, cluster_count |-> cluster_count,
   root_entry_cell_size |-> RootEntryCellSize, root_entry_count |-> RootEntryCount,
   fat_cell_size |-> FatCellSize, clusters_per_boot_sector |-> ClustersPerBootSector]

\* Into<ByteArray> for BootSector
BootSectorInto(bs) ==
  <<Hi(bs.cluster_size), Lo(bs.cluster_size), Hi(bs.cluster_count), Lo(bs.cluster_count),
    Hi(bs.root_entry_cell_size), Lo(bs.root_entry_cell_size),
    Hi(bs.root_entry_count), Lo(bs.root_entry_count),
    Hi(bs.fat_cell_size), Lo(bs.fat_cell_size),
    Hi(bs.clusters_per_boot_sector), Lo(bs.clusters_per_boot_sector)>>
  \o Zeros(bs.cluster_size - 12)

\* From<ByteArray> for BootSector
BootSectorFrom(value) ==
  [cluster_size |-> U16(value[1], value[2]), cluster_count |-> U16(value[3], value[4]),
   root_entry_cell_size |-> U16(value[5], value[6]),
   root_entry_count |-> U16(value[7], value[8]),
   fat_cell_size |-> U16(value[9], value[10]),
   clusters_per_boot_sector |-> U16(value[11], value[12])]

\* DiskManager::new: clusters of the FAT and of the root table
FatClustersOf(bs) == (bs.fat_cell_size * bs.cluster_count) \div bs.cluster_size
RootClustersOf(bs) == (bs.root_entry_cell_size * bs.root_entry_count) \div bs.cluster_size

\* DiskManager::new
DiskManagerNew(boot_sector) ==
  [boot_sector |-> boot_sector,
   fat |-> [i \in 0..(boot_sector.cluster_count - 1) |->
              IF i < boot_sector.clusters_per_boot_sector + FatClustersOf(boot_sector)
                     + RootClustersOf(boot_sector)
                THEN Reserved ELSE Free],
   root |-> [i \in 1..boot_sector.root_entry_count |-> DefaultEntry],
   storage_buffer |-> [c \in 0..(boot_sector.cluster_count - 1) |->
                         Zeros(boot_sector.cluster_size)]]

\* sync_to_buffer, one cluster: the boot sector, the FAT cells that fall in
\* it, the part of a root entry that falls in it, or what the buffer holds
BufferCluster(dm, bs, c) ==
  IF c < bs.clusters_per_boot_sector
    THEN SubSeq(BootSectorInto(bs), c * bs.cluster_size + 1, (c + 1) * bs.cluster_size)
  ELSE IF c < bs.clusters_per_boot_sector + FatClustersOf(bs)
    THEN [j \in 1..bs.cluster_size |->
            With((c - bs.clusters_per_boot_sector) * (bs.cluster_size \div bs.fat_cell_size)
                   + ((j - 1) \div bs.fat_cell_size),
              LAMBDA i :
                IF i >= bs.cluster_count THEN dm.storage_buffer[c][j]
                ELSE IF j % 2 = 1 THEN Hi(FatToU16(dm.fat[i]))
                ELSE Lo(FatToU16(dm.fat[i])))]
  ELSE IF c < bs.clusters_per_boot_sector + FatClustersOf(bs) + RootClustersOf(bs)
    THEN With(c - bs.clusters_per_boot_sector - FatClustersOf(bs),
           LAMBDA k :
             With(bs.root_entry_cell_size \div bs.cluster_size,
               LAMBDA clusters_per_root_entry :
                 SubSeq(EntryToBytes(dm.root[(k \div clusters_per_root_entry) + 1]),
                        (k % clusters_per_root_entry) * bs.cluster_size + 1,
                        (k % clusters_per_root_entry) * bs.cluster_size + bs.cluster_size)))
  ELSE dm.storage_buffer[c]

\* sync_to_buffer and sync_to_file: the bytes written, cluster after cluster
StorageBytes(dm) ==
  With([c \in 0..(dm.boot_sector.cluster_count - 1) |->
          BufferCluster(dm, dm.boot_sector, c)],
    LAMBDA clusters :
      [p \in 1..(dm.boot_sector.cluster_size * dm.boot_sector.cluster_count) |->
         clusters[(p - 1) \div dm.boot_sector.cluster_size]
                 [((p - 1) % dm.boot_sector.cluster_size) + 1]])

\* a format that keeps the cluster count of the old boot sector
format_disk_keeping_count(boot_sector, fat_type) ==
  StorageBytes(DiskManagerNew(BootSector(fat_type, boot_sector.cluster_count)))

\* format_disk: the storage file it leaves.  The disk size is a u32, which
\* holds the product of two u16; the new cluster count is cut to a u16.
format_disk(boot_sector, fat_type) ==
  StorageBytes(DiskManagerNew(
    BootSector(fat_type,
               ((boot_sector.cluster_size * boot_sector.cluster_count) \div fat_type)
                 % 65536)))

(***************************************************************************)
PushIfOk(r) == IF r.res = "Ok" THEN [r EXCEPT !.m = push_sync(r.m)] ELSE r

\* CreateHandler::handle
CreateHandle(m, req) == PushIfOk(create_file(pull_sync(m), req))
\* MakeDirectoryHandler::handle
MakeDirectoryHandle(m, req) == PushIfOk(make_directory(pull_sync(m), req))
\* ChangeDirectoryHandler::handle
ChangeDirectoryHandle(m, name) == change_working_directory(pull_sync(m), name, WalkFuel)
\* CatHandler::handle
CatHandle(m, name, extension) == get_file_content(pull_sync(m), name, extension)
\* RenameHandler::handle
RenameHandle(m, req) == PushIfOk(rename_file(m, req))
\* DeleteHandler::handle
DeleteHandle(m, name, extension) ==
  PushIfOk(delete_file(pull_sync(m), name, extension, WalkFuel))
\* SetAttributesHandler::handle
SetAttributesHandle(m, req) == PushIfOk(set_attributes(pull_sync(m), req))
\* CopyHandler::handle
CopyHandle(m, req) == PushIfOk(copy_file(m, req))

\* ListHandler::handle
ListHandle(m, request) == list_files(pull_sync(m), request)
\* DefragmentHandler::handle
DefragmentHandle(m) == defragment_disk(pull_sync(m))
\* PwdHandler::handle
PwdHandle(m) ==
  With(pull_sync(m),
    LAMBDA m1 : IF m1.st # "ok" THEN Ret(m1, "Abort", "")
                ELSE [Ok(m1) EXCEPT !.out = get_working_directory_full_path(m1)])

(***************************************************************************)
(* Requests the command line can hand in (core/cli_parser.rs)              *)
(***************************************************************************)
FileNames == {NameA, NameB}
DirNames == {NameD}
CreateInputs == {<<0, "Alpha">>, <<20, "Num">>, <<192, "Hex">>}
Targets == {<<n, ExtT>> : n \in FileNames} \cup {<<n, NoExt>> : n \in DirNames}
CdNames == DirNames \cup {DotDotName, SlashName}
TokenLists == {<<"ReadOnly">>}
Kinds == {"Alpha", "Num", "Hex"}

\* parse_create: a file, read-write, visible
CreateRequest(name, extension, size, content_type) ==
  [name |-> name, extension |-> extension, size |-> size, attributes |-> AttrFile,
   dt |-> UtcNow, data |-> Generate(content_type, size)]
\* parse_mkdir: a directory, read-write, visible
MakeDirectoryRequest(name) == [name |-> name, attributes |-> 0, dt |-> UtcNow]
RenameRequest(on, oe, nn, ne) ==
  [old_name |-> on, old_extension |-> oe, new_name |-> nn, new_extension |-> ne]
SetAttributesRequest(name, extension, tokens) ==
  [name |-> name, extension |-> extension, attributes |-> tokens]

\* FilterType::from(char) and SortType::from(&str)
FilterTypeFrom(c) ==
  CASE c = "a" -> [type |-> "All", s |-> <<>>]
    [] c = "h" -> [type |-> "AllAndHidden", s |-> <<>>]
    [] c = "s" -> [type |-> "InShortFormat", s |-> <<>>]
    [] c = "l" -> [type |-> "InLongFormat", s |-> <<>>]
    [] c = "f" -> [type |-> "Files", s |-> <<>>]
    [] c = "d" -> [type |-> "Directories", s |-> <<>>]
    [] OTHER -> [type |-> "All", s |-> <<>>]
SortTypeFrom(s) ==
  CASE s = "na" -> "NameAsc" [] s = "nd" -> "NameDesc"
    [] s = "ta" -> "DateAsc" [] s = "td" -> "DateDesc"
    [] s = "sza" -> "SizeAsc" [] s = "szd" -> "SizeDesc"
    [] OTHER -> "NameAsc"

\* parse_ls: the basic filters in the order typed, then the name, then the
\* extension
parse_ls(filter_basic, filter_name, filter_extension, sort) ==
  [filters |->
     (IF filter_basic = None THEN <<>>
      ELSE [i \in 1..Len(filter_basic[1]) |-> FilterTypeFrom(filter_basic[1][i])])
     \o (IF filter_name = None THEN <<>>
         ELSE <<[type |-> "Name", s |-> filter_name[1]]>>)
     \o (IF filter_extension = None THEN <<>>
         ELSE <<[type |-> "Extension", s |-> filter_extension[1]]>>),
   sort |-> IF sort = None THEN None ELSE Some(SortTypeFrom(sort[1]))]

\* the ls command lines: -(a|h)(s|l)?(f|d)?, -name=, -ext= and a sort key, each
\* of them optional
BasicArgs ==
  {None} \cup {Some(<<x>> \o y \o z) : x \in {"a", "h"},
                                       y \in {<<>>, <<"s">>, <<"l">>},
                                       z \in {<<>>, <<"f">>, <<"d">>}}
ListRequests ==
  {parse_ls(b, n, e, s) : b \in BasicArgs, n \in {None, Some(NameA), Some(DotName)},
                          e \in {None, Some(ExtT)}, s \in {None, Some("szd")}}

(***************************************************************************)
(* State                                                                   *)
(***************************************************************************)
\* clean: every request of the session so far returned Ok
\* holder: for each of the two process-wide mutexes, the thread whose guard is
\* alive (0 when none); pc: where each thread stands in its handler
VARIABLES fat, root, wd, buf, file, st, last, ops, clean, holder, pc

vars == <<fat, root, wd, buf, file, st, last, ops, clean, holder, pc>>

\* the threads that issue requests; the program as shipped has one
MaxThreads == 3
Threads == 1..MaxThreads
\* main.rs: CONFIG_ARC and DISK_ARC, both Arc<Mutex<..>>
Locks == {"CONFIG_ARC", "DISK_ARC"}
NoHolder == [l \in Locks |-> 0]
Idle == [t \in Threads |-> "idle"]

\* requests handled in one session
MaxOps == 4
\* largest size requested in the content sessions
MaxSize == 34

M == [fat |-> fat, root |-> root, wd |-> wd, buf |-> buf, file |-> file, st |-> st]

Req(op, name, extension, name2, extension2, size, kind) ==
  [op |-> op, name |-> name, extension |-> extension, name2 |-> name2,
   extension2 |-> extension2, size |-> size, kind |-> kind]

NoRequest == [op |-> "boot", name |-> <<>>, extension |-> <<>>, name2 |-> <<>>,
              extension2 |-> <<>>, size |-> 0, kind |-> "", res |-> "Ok", at |-> "",
              out |-> <<>>]

\* the effect of a handled request: a process that panicked or hangs keeps only
\* what it had written to the storage file
Served(r, q, bound) ==
  /\ st = "ok"
  /\ ops < bound
  /\ ops' = ops + 1
  /\ clean' = (clean /\ r.m.st = "ok" /\ r.res = "Ok")
  /\ st' = r.m.st
  /\ file' = r.m.file
  /\ IF r.m.st = "ok"
       THEN fat' = r.m.fat /\ root' = r.m.root /\ wd' = r.m.wd /\ buf' = r.m.buf
       ELSE UNCHANGED <<fat, root, wd, buf>>
  /\ last' = [op |-> q.op, name |-> q.name, extension |-> q.extension,
              name2 |-> q.name2, extension2 |-> q.extension2, size |-> q.size,
              kind |-> q.kind,
              res |-> IF r.m.st = "ok" THEN r.res ELSE r.m.st,
              at |-> r.at, out |-> r.out]

\* a request handled by the one thread of main: no guard outlives the handler
Handled(r, q, bound) == Served(r, q, bound) /\ UNCHANGED <<holder, pc>>

Init ==
  LET m == sync_to_file(NewDiskManager)
  IN /\ fat = m.fat /\ root = m.root /\ wd = m.wd /\ buf = m.buf /\ file = m.file
     /\ st = "ok" /\ last = NoRequest /\ ops = 0 /\ clean = TRUE
     /\ holder = NoHolder /\ pc = Idle

DoCreate(n, size, kind, bound) ==
  Handled(CreateHandle(M, CreateRequest(n, ExtT, size, kind)),
          Req("create", n, ExtT, <<>>, <<>>, size, kind), bound)
DoMkdir(n, bound) ==
  Handled(MakeDirectoryHandle(M, MakeDirectoryRequest(n)),
          Req("mkdir", n, NoExt, <<>>, <<>>, 0, ""), bound)
DoCd(n, bound) ==
  Handled(ChangeDirectoryHandle(M, n), Req("cd", n, NoExt, <<>>, <<>>, 0, ""), bound)
DoCat(n, bound) ==
  Handled(CatHandle(M, n, ExtT), Req("cat", n, ExtT, <<>>, <<>>, 0, ""), bound)
DoDelete(n, e, bound) ==
  Handled(DeleteHandle(M, n, e), Req("delete", n, e, <<>>, <<>>, 0, ""), bound)

(***************************************************************************)
(* Sessions over the whole command set                                     *)
(***************************************************************************)
Create == \E n \in FileNames, i \in CreateInputs : DoCreate(n, i[1], i[2], MaxOps)

Mkdir == \E n \in DirNames : DoMkdir(n, MaxOps)

Cd == \E n \in CdNames : DoCd(n, MaxOps)

Cat == \E n \in FileNames : DoCat(n, MaxOps)

Rename ==
  Handled(RenameHandle(M, RenameRequest(NameA, ExtT, NameB, ExtT)),
          Req("rename", NameA, ExtT, NameB, ExtT, 0, ""), MaxOps)

Delete == \E t \in Targets : DoDelete(t[1], t[2], MaxOps)

SetAttr ==
  \E t \in Targets, k \in TokenLists :
    Handled(SetAttributesHandle(M, SetAttributesRequest(t[1], t[2], k)),
            Req("setattr", t[1], t[2], <<>>, <<>>, 0, k[1]), MaxOps)

Copy ==
  Handled(CopyHandle(M, CopyRequest(NameA, ExtT, NameB, ExtT)),
          Req("copy", NameA, ExtT, NameB, ExtT, 0, ""), MaxOps)

CopyDir ==
  \E o \in DirNames :
    Handled(CopyHandle(M, CopyRequest(o, NoExt, NameB, NoExt)),
            Req("copy", o, NoExt, NameB, NoExt, 0, ""), MaxOps)

Next == Create \/ Mkdir \/ Cd \/ Cat \/ Rename \/ Delete \/ SetAttr \/ Copy \/ CopyDir

Spec == Init /\ [][Next]_vars

(***************************************************************************)
(* Sessions that create one file on the fresh image and read it back       *)
(***************************************************************************)
ContentCreate ==
  /\ \A i \in 1..Len(root) : root[i].name = <<>>
  /\ \E size \in 1..MaxSize, kind \in Kinds : DoCreate(NameA, size, kind, MaxOps)

ContentCat ==
  /\ last.op = "create"
  /\ DoCat(NameA, MaxOps)

NextContent == ContentCreate \/ ContentCat

SpecContent == Init /\ [][NextContent]_vars

(***************************************************************************)
(* What the next request finds: the tree and the FAT loaded from storage   *)
(***************************************************************************)
Loaded == pull_sync(M)

RECURSIVE TreeEntries(_, _)
TreeEntries(entries, fuel) ==
  IF entries = <<>> \/ fuel = 0 THEN <<>>
  ELSE LET e == Head(entries)
       IN (IF e.name = <<>> \/ e.name = DotName \/ e.name = DotDotName THEN <<>>
           ELSE <<e>> \o (IF e.children_entries = None THEN <<>>
                          ELSE TreeEntries(e.children_entries[1], fuel - 1)))
          \o TreeEntries(Tail(entries), fuel)

LiveEntries(m) == TreeEntries(m.root, WalkFuel)

\* the allocated clusters met from a first cluster, up to and including EndOfChain
RECURSIVE ChainSet(_, _, _)
ChainSet(f, c, fuel) ==
  IF c >= ClusterCount \/ fuel = 0 THEN {}
  ELSE IF f[c] = EndOfChain THEN {c}
  ELSE IF f[c].tag = "Data" THEN {c} \cup ChainSet(f, f[c].n, fuel - 1)
  ELSE {}

\* the walk from c meets EndOfChain within fuel steps over Data cells only
RECURSIVE WellFormed(_, _, _)
WellFormed(f, c, fuel) ==
  /\ c < ClusterCount
  /\ fuel > 0
  /\ \/ f[c] = EndOfChain
     \/ f[c].tag = "Data" /\ WellFormed(f, f[c].n, fuel - 1)

FreshFat == NewDiskManager.fat
RootIsEmpty(m) == \A i \in 1..Len(m.root) : m.root[i].name = <<>>
StoredFat(m) == FatFromBuffer(m.file, m.fat)

(***************************************************************************)
(* C1. Chain uniqueness: after any sequence of successful create, mkdir,   *)
(* copy, rename and delete requests, the cluster sets reachable from the   *)
(* first cluster of two distinct live entries are disjoint.                *)
(***************************************************************************)
C1_ChainUniqueness ==
  (st = "ok" /\ clean) =>
    With(Loaded,
      LAMBDA L :
        L.st = "ok" =>
          \A i \in 1..Len(LiveEntries(L)), j \in 1..Len(LiveEntries(L)) :
            i # j => ChainSet(L.fat, LiveEntries(L)[i].first_cluster, ClusterCount)
                       \cap ChainSet(L.fat, LiveEntries(L)[j].first_cluster, ClusterCount)
                     = {})

(***************************************************************************)
(* C2. Chain well-formedness: in every state reached by successful         *)
(* requests, the walk from the first cluster of every live entry meets     *)
(* EndOfChain within cluster_count steps and never visits a Free or        *)
(* Reserved cell, for every accepted file size, 0 included.                *)
(***************************************************************************)
C2_ChainWellFormed ==
  (st = "ok" /\ clean) =>
    With(Loaded,
      LAMBDA L :
        L.st = "ok" =>
          \A i \in 1..Len(LiveEntries(L)) :
            WellFormed(L.fat, LiveEntries(L)[i].first_cluster, ClusterCount))

(***************************************************************************)
(* C3. For every size from 1 up and every content kind, cat of a file      *)
(* that create has just made returns exactly size bytes, byte i being the  *)
(* i-th symbol of the cyclic generator of the kind; a size that is a       *)
(* multiple of cluster_size takes the whole last cluster, any other size   *)
(* only size mod cluster_size bytes of it.                                 *)
(***************************************************************************)
C3_CatReturnsGenerated ==
  (st = "ok" /\ last.op = "create" /\ last.res = "Ok" /\ last.size >= 1) =>
    With(CatHandle(M, last.name, last.extension),
      LAMBDA r : /\ r.res = "Ok"
                 /\ Len(r.out) = last.size
                 /\ r.out = Generate(last.kind, last.size))

\* a file of exactly two clusters has been created and read back in full
C3_Witness ==
  /\ last.op = "cat" /\ last.res = "Ok"
  /\ last.out = Generate("Hex", 2 * ClusterSize)

(***************************************************************************)
(* The preconditions of create_file, read off the machine a request finds  *)
(***************************************************************************)
HasEntry(m, name, extension) ==
  /\ get_root_table_for_working_directory(m) # None
  /\ \E j \in 1..Len(get_root_table_for_working_directory(m)[1]) :
       /\ get_root_table_for_working_directory(m)[1][j].name = name
       /\ get_root_table_for_working_directory(m)[1][j].extension = extension
RootIsFull(m) == is_root(m.wd) /\ \A i \in 1..Len(m.root) : m.root[i].name # <<>>
FreeCells(m) == Cardinality({c \in Clusters : m.fat[c] = Free})
Needed(size) == (size + ClusterSize - 1) \div ClusterSize
SameDisk(a, b) == a.fat = b.fat /\ a.root = b.root /\ a.wd = b.wd /\ a.buf = b.buf

CreateRequests == {CreateRequest(n, ExtT, i[1], i[2]) : n \in FileNames, i \in CreateInputs}

C5_CreateSucceeds ==
  st = "ok" =>
    With(Loaded,
      LAMBDA pre :
        (pre.st = "ok" /\ is_root(pre.wd)) =>
          \A req \in CreateRequests :
            With(create_file(pre, req),
              LAMBDA r :
                /\ (/\ ~HasEntry(pre, req.name, req.extension)
                    /\ ~RootIsFull(pre)
                    /\ FreeCells(pre) >= Needed(req.size)) => r.res = "Ok"
                /\ r.res = "OutOfSpace" => FreeCells(pre) < Needed(req.size)))

FreshImage == sync_to_file(NewDiskManager)

EntryOf(m, name, extension) ==
  With(get_root_table_for_working_directory(m)[1],
       LAMBDA t : t[FindEntry(t, name, extension)])

(***************************************************************************)
(* C7. On a freshly formatted image, create of a file in root, then rename *)
(* of it, then delete under the new name, each through its handler, ends   *)
(* with an empty root table and with the FAT, in memory and in the storage *)
(* file, equal to the freshly formatted FAT.                               *)
(***************************************************************************)
C7_CreateRenameDelete ==
  (st = "ok" /\ M = FreshImage) =>
    \A i \in CreateInputs :
      With(CreateHandle(M, CreateRequest(NameA, ExtT, i[1], i[2])),
        LAMBDA r1 :
          r1.res = "Ok" =>
            With(RenameHandle(r1.m, RenameRequest(NameA, ExtT, NameB, ExtT)),
              LAMBDA r2 :
                r2.res = "Ok" =>
                  With(DeleteHandle(r2.m, NameB, ExtT),
                    LAMBDA r3 : /\ r3.res = "Ok"
                                /\ RootIsEmpty(r3.m)
                                /\ r3.m.fat = FreshFat
                                /\ StoredFat(r3.m) = FreshFat)))

(***************************************************************************)
(* C8. On a freshly formatted image, mkdir D, cd D, create of a file of    *)
(* size 1 or more, cd .., delete D ends with an empty root table and with  *)
(* the chain of the directory and the chain of the file Free in the FAT of *)
(* the storage file, that is with every cell outside the reserved prefix   *)
(* Free.                                                                   *)
(***************************************************************************)
C8_DeleteDirectory ==
  (st = "ok" /\ M = FreshImage) =>
    \A i \in {j \in CreateInputs : j[1] >= 1} :
      With(MakeDirectoryHandle(M, MakeDirectoryRequest(NameD)),
        LAMBDA r1 :
          r1.res = "Ok" =>
            With(ChangeDirectoryHandle(r1.m, NameD),
              LAMBDA r2 :
                r2.res = "Ok" =>
                  With(CreateHandle(r2.m, CreateRequest(NameA, ExtT, i[1], i[2])),
                    LAMBDA r3 :
                      r3.res = "Ok" =>
                        With(ChangeDirectoryHandle(r3.m, DotDotName),
                          LAMBDA r4 :
                            r4.res = "Ok" =>
                              With(DeleteHandle(r4.m, NameD, NoExt),
                                LAMBDA r5 : /\ r5.res = "Ok"
                                            /\ RootIsEmpty(r5.m)
                                            /\ StoredFat(r5.m) = FreshFat)))))

(***************************************************************************)
(* C9. delete of an entry whose read-only bit is set returns ReadOnly and  *)
(* leaves the entry in its directory and its chain allocated.              *)
(***************************************************************************)
C9_ReadOnlyDelete ==
  st = "ok" =>
    With(Loaded,
      LAMBDA pre :
        (pre.st = "ok" /\ get_root_table_for_working_directory(pre) # None) =>
          \A t \in Targets :
            (HasEntry(pre, t[1], t[2]) /\ is_read_only(EntryOf(pre, t[1], t[2]))) =>
              With(delete_file(pre, t[1], t[2], WalkFuel),
                LAMBDA r : /\ r.res = "ReadOnly"
                           /\ HasEntry(r.m, t[1], t[2])
                           /\ r.m.fat = pre.fat))

\* what rename must keep of an entry
Kept(e) == <<e.size, e.first_cluster, e.attributes>>

(***************************************************************************)
(* C10. After a successful rename of a file, in root or in a               *)
(* sub-directory, cat of the new name returns the bytes cat returned for   *)
(* the old name, the entry has the size, first cluster and attributes it   *)
(* had, and the old name is not found.                                     *)
(***************************************************************************)
C10_RenamePreservesContent ==
  st = "ok" =>
    With(CatHandle(M, NameA, ExtT),
      LAMBDA c0 :
        c0.res = "Ok" =>
          With(RenameHandle(M, RenameRequest(NameA, ExtT, NameB, ExtT)),
            LAMBDA r :
              r.res = "Ok" =>
                /\ With(CatHandle(r.m, NameB, ExtT),
                      LAMBDA c1 :
                        /\ c1.res = "Ok"
                        /\ c1.out = c0.out
                        /\ Kept(EntryOf(c1.m, NameB, ExtT))
                             = Kept(EntryOf(c0.m, NameA, ExtT)))
                /\ CatHandle(r.m, NameA, ExtT).res = "NotFound"))

\* the renames a session can ask for in a directory
RenameRequests ==
  {RenameRequest(o[1], o[2], n[1], n[2]) : o \in Targets, n \in Targets}

SourceOf(m, name, extension) ==
  With(EntryOf(m, name, extension),
    LAMBDA e :
      <<e.name, e.extension, Kept(e), e.last_modification_datetime,
        [c \in ChainSet(m.fat, e.first_cluster, ClusterCount) |-> <<m.fat[c], m.buf[c]>>]>>)

(***************************************************************************)
(* C12. After a successful copy of a file, cat of the destination returns  *)
(* what cat of the source returned, the destination has the size and the   *)
(* attribute byte of the source, and the source entry, its chain and its   *)
(* content are as they were.                                               *)
(***************************************************************************)
C12_CopyPreservesContent ==
  st = "ok" =>
    With(CatHandle(M, NameA, ExtT),
      LAMBDA c0 :
        c0.res = "Ok" =>
          With(CopyHandle(c0.m, CopyRequest(NameA, ExtT, NameB, ExtT)),
            LAMBDA r :
              r.res = "Ok" =>
                With(CatHandle(r.m, NameB, ExtT),
                  LAMBDA c1 :
                    /\ c1.res = "Ok"
                    /\ c1.out = c0.out
                    /\ EntryOf(c1.m, NameB, ExtT).size = EntryOf(c0.m, NameA, ExtT).size
                    /\ EntryOf(c1.m, NameB, ExtT).attributes
                         = EntryOf(c0.m, NameA, ExtT).attributes
                    /\ HasEntry(c1.m, NameA, ExtT)
                    /\ SourceOf(c1.m, NameA, ExtT) = SourceOf(c0.m, NameA, ExtT)
                    /\ get_file_content(c1.m, NameA, ExtT).out = c0.out)))

(***************************************************************************)
(* Sessions over FileEntry::apply_attributes alone: an attribute byte,     *)
(* then one token after another applied to it.  last.out holds the byte,   *)
(* last.size the byte before the token, last.kind the token.               *)
(***************************************************************************)
Tokens == {"ReadOnly", "ReadWrite", "Hidden", "Visible"}
\* longest token list of one request
MaxTokens == 3
TokenSeqs == UNION {[1..k -> Tokens] : k \in 0..MaxTokens}

InitAttr ==
  /\ fat = FreshImage.fat /\ root = FreshImage.root /\ wd = FreshImage.wd
  /\ buf = FreshImage.buf /\ file = FreshImage.file
  /\ st = "ok" /\ ops = 0 /\ clean = TRUE
  /\ holder = NoHolder /\ pc = Idle
  /\ \E b \in 0..255 :
       last = [NoRequest EXCEPT !.op = "attr", !.size = b, !.out = <<b>>]

AttrApply ==
  /\ ops < MaxOps
  /\ ops' = ops + 1
  /\ \E t \in Tokens :
       last' = [last EXCEPT !.kind = t, !.size = last.out[1],
                            !.out = <<apply_attributes(last.out[1], <<t>>)>>]
  /\ UNCHANGED <<fat, root, wd, buf, file, st, clean, holder, pc>>

NextAttr == AttrApply

SpecAttr == InitAttr /\ [][NextAttr]_vars

Bit(a, k) == (a \div (2 ^ k)) % 2

\* the bit a token list leaves: that of the last token of the list that sets
\* or clears it, or the bit of the byte when the list has no such token
Decided(a, ts, k, setting, clearing) ==
  With({i \in 1..Len(ts) : ts[i] \in {setting, clearing}},
    LAMBDA S : IF S = {} THEN Bit(a, k)
               ELSE IF ts[CHOOSE i \in S : \A j \in S : j <= i] = setting THEN 1
               ELSE 0)

(***************************************************************************)
(* C13. For every attribute byte and every token, the token applied twice  *)
(* gives the byte the token applied once gives; for a token list, bit 0 is *)
(* what the last ReadOnly or ReadWrite of the list says and bit 1 what the *)
(* last Hidden or Visible says.                                            *)
(***************************************************************************)
C13_TokensIdempotent ==
  With(last.out[1],
    LAMBDA a :
      /\ last.kind \in Tokens => apply_attributes(a, <<last.kind>>) = a
      /\ \A t \in Tokens :
           apply_attributes(apply_attributes(a, <<t>>), <<t>>) = apply_attributes(a, <<t>>)
      /\ \A ts \in TokenSeqs :
           /\ Bit(apply_attributes(a, ts), 0) = Decided(a, ts, 0, "ReadOnly", "ReadWrite")
           /\ Bit(apply_attributes(a, ts), 1) = Decided(a, ts, 1, "Hidden", "Visible"))

\* a token has set a bit of a byte that has higher bits set as well
C13_Witness ==
  /\ last.op = "attr" /\ last.kind = "Hidden"
  /\ last.size >= 128 /\ last.out[1] = last.size + 2

(***************************************************************************)
(* Sessions that build a tree and set attributes in it.                    *)
(***************************************************************************)
NextSetAttr == Create \/ Mkdir \/ Cd \/ SetAttr

SpecSetAttr == Init /\ [][NextSetAttr]_vars

\* the token lists tried on every entry: every token alone, and two lists
\* that touch both bits
AttrLists ==
  [1..1 -> Tokens] \cup {<<"Hidden", "ReadOnly">>, <<"ReadOnly", "Visible", "ReadWrite">>}

\* what set_attributes must keep of an entry, and all that the image stores of it
Stable(e) == <<e.name, e.extension, e.size, e.first_cluster, e.attributes \div 4>>
Stored(e) == <<Stable(e), e.attributes, e.last_modification_datetime>>

\* every entry of the tree keeps its stable part, and at most the entry of the
\* given name differs in what is stored of it
OnlyAttributesOf(before, after, name, extension) ==
  /\ Len(before) = Len(after)
  /\ \A i \in 1..Len(before) :
       /\ Stable(before[i]) = Stable(after[i])
       /\ Stored(before[i]) # Stored(after[i])
            => before[i].name = name /\ before[i].extension = extension
  /\ Cardinality({i \in 1..Len(before) : Stored(before[i]) # Stored(after[i])}) <= 1

(***************************************************************************)
(* C14. A successful set_attributes changes nothing but bits 0 and 1 of    *)
(* the attribute byte of the entry it names, and its modification time:    *)
(* the type bit, name, extension, size and first cluster of that entry,    *)
(* every other entry of the tree and every FAT cell are as before, for     *)
(* every token list.                                                       *)
(***************************************************************************)
C14_OnlyLowBitsChange ==
  st = "ok" =>
    With(Loaded,
      LAMBDA pre :
        (pre.st = "ok" /\ get_root_table_for_working_directory(pre) # None) =>
          \A t \in {u \in Targets : HasEntry(pre, u[1], u[2])}, ts \in AttrLists :
            With(PushIfOk(set_attributes(pre, SetAttributesRequest(t[1], t[2], ts))),
              LAMBDA r :
                r.res = "Ok" =>
                  With(pull_sync(r.m),
                    LAMBDA post :
                      /\ post.st = "ok"
                      /\ post.fat = pre.fat
                      /\ OnlyAttributesOf(LiveEntries(pre), LiveEntries(post),
                                          t[1], t[2]))))

\* a file with content, inside a sub-directory, has been made read-only
C14_Witness ==
  /\ last.op = "setattr" /\ last.res = "Ok" /\ ~is_root(wd)
  /\ HasEntry(M, last.name, last.extension)
  /\ is_read_only(EntryOf(M, last.name, last.extension))
  /\ EntryOf(M, last.name, last.extension).size > 0

(***************************************************************************)
(* Sessions that build a tree, hide entries of it and list directories.    *)
(* last.kind holds the basic filters as typed.                             *)
(***************************************************************************)
LsInputs == {<<"", None>>, <<"h", Some(<<"h">>)>>, <<"ad", Some(<<"a", "d">>)>>}

Hide ==
  \E t \in Targets :
    Handled(SetAttributesHandle(M, SetAttributesRequest(t[1], t[2], <<"Hidden">>)),
            Req("setattr", t[1], t[2], <<>>, <<>>, 0, "Hidden"), MaxOps)

Ls ==
  \E i \in LsInputs :
    Handled(ListHandle(M, parse_ls(i[2], None, None, None)),
            Req("ls", <<>>, <<>>, <<>>, <<>>, 0, i[1]), MaxOps)

NextList == Create \/ Mkdir \/ Cd \/ Hide \/ Ls

SpecList == Init /\ [][NextList]_vars

(***************************************************************************)
(* C15. In every working directory and for every filter list the command   *)
(* line can build, AllAndHidden included, list_files returns no entry      *)
(* named "." or "..".                                                      *)
(***************************************************************************)
C15_NoPseudoEntries ==
  st = "ok" =>
    With(Loaded,
      LAMBDA pre :
        pre.st = "ok" =>
          \A request \in ListRequests :
            With(list_files(pre, request),
              LAMBDA r :
                r.res = "Ok" =>
                  \A i \in 1..Len(r.out) : r.out[i].name \notin {DotName, DotDotName}))

(***************************************************************************)
(* C16. list_files returns a hidden entry only when the filter list holds  *)
(* AllAndHidden: for the empty list and for every list without             *)
(* AllAndHidden every returned entry is visible; an empty slot is never    *)
(* returned.                                                               *)
(***************************************************************************)
C16_HiddenOnlyOnRequest ==
  st = "ok" =>
    With(Loaded,
      LAMBDA pre :
        pre.st = "ok" =>
          \A request \in ListRequests :
            With(list_files(pre, request),
              LAMBDA r :
                r.res = "Ok" =>
                  \A i \in 1..Len(r.out) :
                    /\ r.out[i].name # <<>>
                    /\ (\A k \in 1..Len(request.filters) :
                          request.filters[k].type # "AllAndHidden")
                         => ~is_hidden(r.out[i])))

(***************************************************************************)
(* Sessions that build a tree and move in it.                              *)
(***************************************************************************)
NavNames == DirNames \cup FileNames \cup {DotName, DotDotName, SlashName}

Nav == \E n \in NavNames : DoCd(n, MaxOps)

Pwd == Handled(PwdHandle(M), Req("pwd", <<>>, <<>>, <<>>, <<>>, 0, ""), MaxOps)

NextNav == Create \/ Mkdir \/ Nav \/ Pwd

SpecNav == Init /\ [][NextNav]_vars

(***************************************************************************)
(* C17. cd(".") returns success in every working directory, root included, *)
(* and leaves the working directory, the FAT, the tree and the storage as  *)
(* the request found them.                                                 *)
(***************************************************************************)
C17_CdDotNoOp ==
  st = "ok" =>
    With(Loaded,
      LAMBDA pre :
        (pre.st = "ok" /\ get_root_table_for_working_directory(pre) # None) =>
          With(ChangeDirectoryHandle(M, DotName),
            LAMBDA r : r.res = "Ok" /\ r.m = pre))

\* the names on the way from root to a directory, root's own name left out
PathNames(e) == Tail(Reverse(PathDirs(e)))

\* the working directory is the directory of that path and that first cluster,
\* and stays so when the next request loads the image
StandsIn(m, path, first_cluster) ==
  /\ m.st = "ok"
  /\ PathNames(m.wd) = path /\ m.wd.first_cluster = first_cluster
  /\ With(pull_sync(m),
       LAMBDA m1 : /\ m1.st = "ok" /\ PathNames(m1.wd) = path
                   /\ m1.wd.first_cluster = first_cluster /\ m1.file = m.file)

\* the entries of a table that have the name, and those of them that are
\* directories
Named(tbl, name) == {i \in 1..Len(tbl) : tbl[i].name = name}
NamedDirs(tbl, name) == {i \in Named(tbl, name) : ~is_file(tbl[i])}

MaxDepth == 2
Descents == UNION {[1..k -> DirNames] : k \in 0..MaxDepth}

\* one cd request after another, from the state a session has reached
RECURSIVE CdEach(_, _)
CdEach(m, ds) ==
  IF ds = <<>> THEN Ok(m)
  ELSE With(ChangeDirectoryHandle(m, Head(ds)),
         LAMBDA r : IF r.res = "Ok" THEN CdEach(r.m, Tail(ds)) ELSE r)

\* "/d1/d2/.../dn"
RECURSIVE Slashed(_)
Slashed(ds) == IF ds = <<>> THEN <<>> ELSE SlashName \o Head(ds) \o Slashed(Tail(ds))

\* pwd after every descent from root that succeeds
PwdAfterDescents(rendered(_)) ==
  st = "ok" =>
    With(Loaded,
      LAMBDA pre :
        (pre.st = "ok" /\ is_root(pre.wd)) =>
          \A ds \in Descents :
            With(CdEach(M, ds),
              LAMBDA r :
                r.res = "Ok" =>
                  With(PwdHandle(r.m),
                    LAMBDA p : p.res = "Ok" /\ p.out = rendered(ds))))

(***************************************************************************)
(* C19, as stated. pwd returns "/" at root and, at the directory reached   *)
(* by descending d1, ..., dn from root, "/d1/.../dn/": the names joined by *)
(* "/" with a "/" at the end.                                              *)
(***************************************************************************)
C19_PwdTrailingSlash ==
  PwdAfterDescents(LAMBDA ds : IF ds = <<>> THEN SlashName ELSE Slashed(ds) \o SlashName)

(***************************************************************************)
(* C19, amended. pwd returns "/" at root and, at the directory reached by  *)
(* descending d1, ..., dn from root, "/d1/.../dn": a "/" before every      *)
(* name and none at the end.                                               *)
(***************************************************************************)
C19_PwdPath ==
  PwdAfterDescents(LAMBDA ds : IF ds = <<>> THEN SlashName ELSE Slashed(ds))

\* pwd has answered inside a directory
C19_Witness ==
  /\ last.op = "pwd" /\ last.res = "Ok"
  /\ PathNames(wd) = <<NameD>> /\ last.out = SlashName \o NameD

(***************************************************************************)
(* Sessions that format an image.  The image is one the program has made:  *)
(* 16- or 32-byte clusters over a whole number of 512-byte units, with     *)
(* files of one or more clusters in the first root slots.  fat, root and   *)
(* buf are the DiskManager's, file is the byte sequence of the storage     *)
(* file, last.size the cluster size asked for.  fmt ends the process.      *)
(***************************************************************************)
FatTypes == {16, 32}
\* largest image, in units of 512 bytes
MaxImage == 3
\* longest chain of a file that exists before a format
MaxChain == 2

ImageBootSectors ==
  {BootSector(cs, (512 * k) \div cs) : cs \in FatTypes, k \in 1..MaxImage}

\* the chain lengths of the files an image holds
ImageContents == UNION {[1..k -> 1..MaxChain] : k \in 0..RootEntryCount}

\* a DiskManager with one file per chain length, each chain on the first
\* free cells
RECURSIVE WithFiles(_, _, _)
WithFiles(dm, lens, slot) ==
  IF lens = <<>> THEN dm
  ELSE With(MinOf({i \in DOMAIN dm.fat : dm.fat[i] = Free}),
         LAMBDA first :
           WithFiles(
             [dm EXCEPT
                !.root[slot] = NewEntry(<<64 + slot>>, ExtT,
                                        Head(lens) * dm.boot_sector.cluster_size, first,
                                        AttrFile, UtcNow, Some(RootEntry), None),
                !.fat = [i \in DOMAIN dm.fat |->
                           IF i \in first..(first + Head(lens) - 2) THEN Data(i + 1)
                           ELSE IF i = first + Head(lens) - 1 THEN EndOfChain
                           ELSE dm.fat[i]],
                !.storage_buffer =
                   [c \in DOMAIN dm.storage_buffer |->
                      IF c \in first..(first + Head(lens) - 1)
                        THEN [j \in 1..dm.boot_sector.cluster_size |-> 48 + slot]
                        ELSE dm.storage_buffer[c]]],
             Tail(lens), slot + 1))

InitFmt ==
  \E bs \in ImageBootSectors, lens \in ImageContents :
    With(WithFiles(DiskManagerNew(bs), lens, 1),
      LAMBDA dm :
        /\ fat = dm.fat /\ root = dm.root /\ wd = RootEntry
        /\ buf = [c \in DOMAIN dm.storage_buffer |-> BufferCluster(dm, bs, c)]
        /\ file = StorageBytes(dm)
        /\ st = "ok" /\ ops = 0 /\ clean = TRUE
        /\ holder = NoHolder /\ pc = Idle
        /\ last = NoRequest)

\* get_boot_sector
get_boot_sector == BootSectorFrom(buf[0])

Fmt ==
  /\ st = "ok"
  /\ \E fat_type \in FatTypes :
       /\ file' = format_disk(get_boot_sector, fat_type)
       /\ last' = [NoRequest EXCEPT !.op = "fmt", !.size = fat_type]
  /\ st' = "exit"
  /\ ops' = ops + 1
  /\ UNCHANGED <<fat, root, wd, buf, clean, holder, pc>>

NextFmt == Fmt

SpecFmt == InitFmt /\ [][NextFmt]_vars

\* what the storage file holds: its boot sector, a cell of its FAT and a slot
\* of its root table
StoredBootSector == BootSectorFrom(SubSeq(file, 1, 12))
StoredCell(bs, i) ==
  U16ToFat(U16(file[bs.clusters_per_boot_sector * bs.cluster_size + bs.fat_cell_size * i + 1],
               file[bs.clusters_per_boot_sector * bs.cluster_size + bs.fat_cell_size * i + 2]))
StoredSlot(bs, j) ==
  SubSeq(file,
         (bs.clusters_per_boot_sector + FatClustersOf(bs)) * bs.cluster_size
           + bs.root_entry_cell_size * j + 1,
         (bs.clusters_per_boot_sector + FatClustersOf(bs)) * bs.cluster_size
           + bs.root_entry_cell_size * j + bs.root_entry_cell_size)

(***************************************************************************)
(* C20. After fmt(c), c 16 or 32, the stored boot sector has cluster size  *)
(* c and cluster count old size * old count / c, so that the image keeps   *)
(* its total size; the stored FAT has one cell per cluster, the first      *)
(* clusters_per_boot_sector + fat_clusters + root_clusters of them         *)
(* Reserved and every other Free; every root slot is empty; whatever the   *)
(* image held before.                                                      *)
(***************************************************************************)
C20_FormatBlankImage ==
  last.op = "fmt" =>
    With(StoredBootSector,
      LAMBDA bs :
        /\ bs.cluster_size = last.size
        /\ bs.cluster_count
             = (get_boot_sector.cluster_size * get_boot_sector.cluster_count) \div last.size
        /\ bs.cluster_size * bs.cluster_count
             = get_boot_sector.cluster_size * get_boot_sector.cluster_count
        /\ Len(file) = bs.cluster_size * bs.cluster_count
        /\ FatClustersOf(bs) * (bs.cluster_size \div bs.fat_cell_size) = bs.cluster_count
        /\ \A i \in 0..(bs.cluster_count - 1) :
             StoredCell(bs, i)
               = IF i < bs.clusters_per_boot_sector + FatClustersOf(bs) + RootClustersOf(bs)
                   THEN Reserved ELSE Free
        /\ \A j \in 0..(bs.root_entry_count - 1) :
             /\ StoredSlot(bs, j) = EntryToBytes(DefaultEntry)
             /\ \A i \in 1..(bs.root_entry_cell_size \div 2) : StoredSlot(bs, j)[i] = 0
        /\ \A p \in ((bs.clusters_per_boot_sector + FatClustersOf(bs) + RootClustersOf(bs))
                       * bs.cluster_size + 1)..Len(file) : file[p] = 0)

\* an image of 16-byte clusters that held two files has been formatted to
\* 32-byte clusters
C20_Witness ==
  /\ last.op = "fmt" /\ last.size = 32 /\ get_boot_sector.cluster_size = 16
  /\ root[1].name # <<>> /\ root[2].name # <<>>
  /\ \E i \in DOMAIN fat : fat[i].tag = "Data"

(***************************************************************************)
(* Sessions that end in a defragmentation                                  *)
(***************************************************************************)
Defrag ==
  Handled(DefragmentHandle(M), Req("defrag", <<>>, <<>>, <<>>, <<>>, 0, ""), MaxOps)

NextDefrag == Create \/ Mkdir \/ Cd \/ Delete \/ Defrag

SpecDefrag == Init /\ [][NextDefrag]_vars

\* what cat shows of a file of the tree
Shown(m, e) ==
  With(CatEntry(m, e), LAMBDA c : IF c.res = "Ok" /\ c.m.st = "ok" THEN c.out ELSE <<c.res>>)

\* every path of the tree with what a listing and cat show of it
Inventory(m) ==
  {[path |-> Reverse(PathDirs(LiveEntries(m)[i])),
    extension |-> LiveEntries(m)[i].extension,
    file |-> is_file(LiveEntries(m)[i]),
    attributes |-> LiveEntries(m)[i].attributes,
    dt |-> LiveEntries(m)[i].last_modification_datetime,
    content |-> IF is_file(LiveEntries(m)[i]) THEN Shown(m, LiveEntries(m)[i]) ELSE <<>>]
     : i \in 1..Len(LiveEntries(m))}

\* the image a fresh pull finds after the defragmentation of the present one
Defragmented == With(DefragmentHandle(M), LAMBDA r : [res |-> r.res, m |-> pull_sync(r.m)])

RECURSIVE Consecutive(_, _, _)
Consecutive(f, c, fuel) ==
  /\ c < ClusterCount
  /\ fuel > 0
  /\ \/ f[c] = EndOfChain
     \/ f[c] = Data(c + 1) /\ Consecutive(f, c + 1, fuel - 1)

\* the cells after the reserved prefix that are not Free
Allocated(f) == {c \in Clusters : c >= ReservedCount /\ f[c] # Free}

\* the files of the root table in table order
RootFiles(m) == SelectSeq(m.root, LAMBDA e : e.name # <<>> /\ is_file(e))

RootFileNames(m) == [i \in 1..Len(RootFiles(m)) |-> <<RootFiles(m)[i].name, RootFiles(m)[i].extension>>]

(***************************************************************************)
(* C22. After a successful defragment every chain is a run of consecutive  *)
(* clusters, the chains together occupy the lowest indices after the       *)
(* reserved prefix with no Free cell between them, and the files of root   *)
(* keep their relative order.                                              *)
(***************************************************************************)
C22_DefragContiguous ==
  st = "ok" =>
    With(Defragmented,
      LAMBDA d :
        (d.res = "Ok" /\ d.m.st = "ok" /\ Loaded.st = "ok") =>
          /\ \A i \in 1..Len(LiveEntries(d.m)) :
               Consecutive(d.m.fat, LiveEntries(d.m)[i].first_cluster, ClusterCount)
          /\ Allocated(d.m.fat)
               = ReservedCount..(ReservedCount + Cardinality(Allocated(d.m.fat)) - 1)
          /\ RootFileNames(d.m) = RootFileNames(Loaded)
          /\ \A i \in 1..Len(RootFiles(d.m)), j \in 1..Len(RootFiles(d.m)) :
               i < j => RootFiles(d.m)[i].first_cluster < RootFiles(d.m)[j].first_cluster)

\* the requests that change the image
Mutations == {"create", "mkdir", "rename", "delete", "copy", "setattr", "defrag"}

(***************************************************************************)
(* C23. After every successful mutation the storage file equals the image  *)
(* the serving engine holds in memory (its FAT, its root table and its     *)
(* cluster buffer), so that a request whose handler does not pull first    *)
(* acts on what the storage holds.                                         *)
(***************************************************************************)
C23_StorageEqualsMemory ==
  (st = "ok" /\ last.op \in Mutations /\ last.res = "Ok") => push_sync(M).file = file

\* the tree below the root table: every path with what its record holds, the
\* pseudo-children and the size of directories left out
TreeView(m) ==
  {[path |-> Reverse(PathDirs(LiveEntries(m)[i])),
    extension |-> LiveEntries(m)[i].extension,
    file |-> is_file(LiveEntries(m)[i]),
    attributes |-> LiveEntries(m)[i].attributes,
    first_cluster |-> LiveEntries(m)[i].first_cluster,
    size |-> IF is_file(LiveEntries(m)[i]) THEN LiveEntries(m)[i].size ELSE 0]
     : i \in 1..Len(LiveEntries(m))}

\* push_sync, then a fresh engine on the same storage file and its pull_sync
Reloaded(m) == pull_sync([NewDiskManager EXCEPT !.file = push_sync(m).file])

(***************************************************************************)
(* C24. Persistence round trip: in every state reached by successful       *)
(* mutations, push_sync followed by a fresh engine and its pull_sync gives *)
(* the FAT and the tree the engine holds: the same paths with the same     *)
(* extension, kind, attributes, first cluster and file size.               *)
(***************************************************************************)
C24_PersistenceRoundTrip ==
  (st = "ok" /\ clean) =>
    With(Reloaded(M),
      LAMBDA r : r.st = "ok" /\ r.fat = fat /\ TreeView(r) = TreeView(M))

\* the requests that only read
Queries == {"ls", "cat", "pwd", "cd"}

(***************************************************************************)
(* C25. Queries never write: a step that handles list, cat, pwd or cd      *)
(* leaves the storage file byte for byte as it was, and with it the FAT    *)
(* stored in it.                                                           *)
(***************************************************************************)
C25_QueriesNeverWrite ==
  [][last'.op \in Queries => (file' = file /\ StoredFat(M)' = StoredFat(M))]_vars

(***************************************************************************)
(* The FAT cell codec: a 16-bit word is decoded into a cell of the table,  *)
(* the table is pushed to the storage file, and a fresh engine pulls it    *)
(* back.                                                                   *)
(***************************************************************************)
\* the largest value of a u16
MaxWord == 65535

\* the cell the word goes to: the first one after the reserved prefix
CodecCell == ReservedCount

\* where sync_to_buffer puts the two bytes of that cell
CodecBytes(image) ==
  <<image[ClustersPerBootSector + (CodecCell \div FatCellsPerCluster)]
         [(CodecCell % FatCellsPerCluster) * FatCellSize + 1],
    image[ClustersPerBootSector + (CodecCell \div FatCellsPerCluster)]
         [(CodecCell % FatCellsPerCluster) * FatCellSize + 2]>>

InitCodec ==
  /\ fat = FreshImage.fat /\ root = FreshImage.root /\ wd = FreshImage.wd
  /\ buf = FreshImage.buf /\ file = FreshImage.file
  /\ st = "ok" /\ ops = 0 /\ clean = TRUE
  /\ holder = NoHolder /\ pc = Idle
  /\ \E v \in 0..MaxWord : last = [NoRequest EXCEPT !.op = "word", !.size = v]

\* FatValue::from(word) into the table, then push_sync
CodecStore ==
  /\ last.op = "word"
  /\ Handled(Ok(push_sync([M EXCEPT !.fat[CodecCell] = U16ToFat(last.size)])),
             Req("store", <<>>, <<>>, <<>>, <<>>, last.size, ""), MaxOps)

\* a fresh engine on the storage file, then pull_sync
CodecLoad ==
  /\ last.op = "store"
  /\ Handled(Ok(pull_sync([NewDiskManager EXCEPT !.file = file])),
             Req("load", <<>>, <<>>, <<>>, <<>>, last.size, ""), MaxOps)

NextCodec == CodecStore \/ CodecLoad

SpecCodec == InitCodec /\ [][NextCodec]_vars

(***************************************************************************)
(* C26. FAT cell codec round trip: for every 16-bit word v,                *)
(* encode(decode(v)) = v, and for every valid cell x, decode(encode(x)) =  *)
(* x; Free, Reserved, Bad and EndOfChain are the words 0x0000, 0x0001,     *)
(* 0x0002 and 0xFFFF and every other word is Data of itself; a cell is     *)
(* stored as two bytes, high byte first, and read back from them by a      *)
(* fresh engine.                                                           *)
(***************************************************************************)
C26_FatCodecRoundTrip ==
  With(last.size,
    LAMBDA v :
      /\ FatToU16(U16ToFat(v)) = v
      /\ U16ToFat(FatToU16(U16ToFat(v))) = U16ToFat(v)
      /\ U16ToFat(v) = (CASE v = 0 -> Free [] v = 1 -> Reserved [] v = 2 -> Bad
                          [] v = MaxWord -> EndOfChain [] OTHER -> Data(v))
      /\ FatToU16(Free) = 0 /\ FatToU16(Reserved) = 1 /\ FatToU16(Bad) = 2
      /\ FatToU16(EndOfChain) = MaxWord
      /\ last.op \in {"store", "load"} =>
           /\ CodecBytes(file) = <<v \div 256, v % 256>>
           /\ fat[CodecCell] = U16ToFat(v)
           /\ StoredFat(M)[CodecCell] = U16ToFat(v))

\* a word with two different bytes has been stored and pulled by a fresh engine
C26_Witness ==
  /\ last.op = "load" /\ last.size = 43981
  /\ fat[CodecCell] = Data(43981)
  /\ CodecBytes(file) = <<171, 205>>

(***************************************************************************)
(* Sessions of creates in root on a freshly formatted image                *)
(***************************************************************************)
\* sizes below, at and above the cluster boundaries
AllocSizes == {0, 1, 16, 17, 32, 33, 48}

\* as many names as the root table of the larger geometry has slots
NameC == <<67>>
FreshNames == FileNames \cup {NameC}

\* creates handled in one such session
MaxCreates == 2

FreshCreate ==
  \E n \in FreshNames, size \in AllocSizes : DoCreate(n, size, "Num", MaxCreates)

NextFresh == FreshCreate

SpecFresh == Init /\ [][NextFresh]_vars

\* every link met from c goes to the next index
Contiguous(f, c) ==
  \A x \in ChainSet(f, c, ClusterCount) : f[x].tag = "Data" => f[x].n = x + 1

(***************************************************************************)
(* C27. Monotonic allocation after fmt: when only creates in root have     *)
(* been handled on a fresh image, the first clusters of the files are      *)
(* non-decreasing in creation order (the order of the root slots) and the  *)
(* chain of every file is a run of consecutive indices.                    *)
(***************************************************************************)
C27_MonotonicAfterFmt ==
  st = "ok" =>
    With(Loaded,
      LAMBDA L :
        /\ L.st = "ok"
        /\ \A i \in 1..Len(L.root), j \in 1..Len(L.root) :
             (i < j /\ L.root[i].name # <<>> /\ L.root[j].name # <<>>)
               => L.root[i].first_cluster <= L.root[j].first_cluster
        /\ \A i \in 1..Len(L.root) :
             L.root[i].name # <<>> => Contiguous(L.fat, L.root[i].first_cluster)
        /\ \A i \in 1..Len(L.root) : L.root[i].name = <<>> =>
             \A j \in 1..Len(L.root) : j > i => L.root[j].name = <<>>)

\* a second file was created after one of three clusters
C27_Witness ==
  /\ last.op = "create" /\ last.res = "Ok" /\ last.size = 17
  /\ root[1].size = 33 /\ root[2].size = 17
  /\ root[1].first_cluster + 3 = root[2].first_cluster
  /\ fat[root[2].first_cluster] = Data(root[2].first_cluster + 1)

(***************************************************************************)
(* Sessions long enough to create inside a sub-directory after a deletion  *)
(* in root                                                                 *)
(***************************************************************************)
\* requests handled in one such session
MaxChainOps == 5

ChainCreate == \E i \in CreateInputs : DoCreate(NameA, i[1], i[2], MaxChainOps)

ChainMkdir == \E n \in DirNames : DoMkdir(n, MaxChainOps)

ChainCd == \E n \in DirNames : DoCd(n, MaxChainOps)

ChainDelete == DoDelete(NameA, ExtT, MaxChainOps)

NextChains == ChainCreate \/ ChainMkdir \/ ChainCd \/ ChainDelete

SpecChains == Init /\ [][NextChains]_vars

\* every link met from c goes to a higher index
Increasing(f, c) ==
  \A x \in ChainSet(f, c, ClusterCount) : f[x].tag = "Data" => f[x].n > x

(***************************************************************************)
(* C28. Monotonic successor rule: in every image persisted by a sequence   *)
(* of successful requests the cluster indices along the chain of every     *)
(* file and of every directory are strictly increasing.                    *)
(***************************************************************************)
C28_ChainsIncrease ==
  (st = "ok" /\ clean) =>
    With(Loaded,
      LAMBDA L :
        L.st = "ok" =>
          \A i \in 1..Len(LiveEntries(L)) :
            Increasing(StoredFat(M), LiveEntries(L)[i].first_cluster))

\* the bytes of the last cluster of a chain that follow the payload
Padding(image, f, head, size) ==
  SubSeq(image[TailWalk(f, head, WalkFuel)],
         ((size - 1) % ClusterSize) + 2, ClusterSize)

\* what a successful create of size >= 1 leaves, given the FAT the handler's
\* pull_sync hands to create_file, the engine after it and the entry it made
CreatedChain(before, m, e, at_root) ==
  /\ e.first_cluster = MinOf({c \in Clusters : before[c] = Free})
  /\ WellFormed(m.fat, e.first_cluster, ClusterCount)
  /\ Cardinality(ChainSet(m.fat, e.first_cluster, ClusterCount)) = Needed(e.size)
  /\ StoredFat(m) = m.fat
  /\ Padding(m.file, m.fat, e.first_cluster, e.size)
       = Zeros(ClusterSize - 1 - ((e.size - 1) % ClusterSize))
  /\ at_root =>
       \A c \in Clusters \ ChainSet(m.fat, e.first_cluster, ClusterCount) :
         m.fat[c] = before[c]

(***************************************************************************)
(* C29. A successful create of size s >= 1 allocates a chain of exactly    *)
(* ceil(s / cluster_size) clusters whose head is the lowest Free index at  *)
(* the time of the request; every cell of it but the last is Data of the   *)
(* next and the last is EndOfChain; the last cluster is zero after the     *)
(* payload; with root as the working directory no FAT cell outside the     *)
(* chain changes.                                                          *)
(***************************************************************************)
C29_CreateAllocates ==
  [][(last'.op = "create" /\ last'.res = "Ok" /\ last'.size >= 1)
       => CreatedChain(Loaded.fat, M', EntryOf(M', last'.name, last'.extension),
                       is_root(wd'))]_vars

\* a file of two clusters was created inside a directory
C29_Witness ==
  /\ last.op = "create" /\ last.res = "Ok" /\ last.size = 20
  /\ ~is_root(wd)
  /\ fat[EntryOf(M, NameA, ExtT).first_cluster] = Data(EntryOf(M, NameA, ExtT).first_cluster + 1)

\* the records a directory chain holds in an image, one per ClustersPerRootEntry
\* clusters of the chain taken in chain order
RECURSIVE ChainBytes(_, _, _, _)
ChainBytes(image, f, c, fuel) ==
  IF c >= ClusterCount \/ fuel = 0 THEN <<>>
  ELSE IF f[c] = EndOfChain THEN image[c]
  ELSE IF f[c].tag = "Data" THEN image[c] \o ChainBytes(image, f, f[c].n, fuel - 1)
  ELSE <<>>

ChainRecords(image, f, c) ==
  With(ChainBytes(image, f, c, ClusterCount),
    LAMBDA bytes :
      [k \in 1..(Len(bytes) \div RootEntryCellSize) |->
         BytesToEntry(SubSeq(bytes, (k - 1) * RootEntryCellSize + 1, k * RootEntryCellSize))])

\* the live entries of a table
LiveCount(table) == Cardinality({i \in 1..Len(table) : table[i].name # <<>>})

\* what a successful mkdir leaves: the table before, the engine after, the entry
MadeDirectory(before, m, e) ==
  /\ LiveCount(get_root_table_for_working_directory(m)[1]) = LiveCount(before) + 1
  /\ ~is_file(e) /\ e.extension = <<>>
  /\ e.size = 2 * RootEntryCellSize
  /\ With(ChainRecords(m.file, StoredFat(m), e.first_cluster),
       LAMBDA rs :
         /\ Len(rs) = 2
         /\ rs[1].name = DotName /\ rs[2].name = DotDotName
         /\ \A k \in 1..2 : /\ ~is_file(rs[k])
                            /\ is_hidden(rs[k])
                            /\ is_read_only(rs[k]))
  /\ With(ChangeDirectoryHandle(m, e.name),
       LAMBDA c : /\ c.res = "Ok"
                  /\ With(ListHandle(c.m, parse_ls(None, None, None, None)),
                       LAMBDA l : l.res = "Ok" /\ l.out = <<>>))

C31_MkdirRootFull ==
  [][(last'.op = "mkdir" /\ st' = "ok" /\ Loaded.st = "ok"
        /\ is_root(Loaded.wd) /\ RootIsFull(Loaded))
       => /\ last'.res # "Ok"
          /\ fat' = Loaded.fat /\ root' = Loaded.root /\ buf' = Loaded.buf]_vars

(***************************************************************************)
(* Sessions over a directory tree: a file of any of the sizes of           *)
(* AllocSizes is created in root or in D, and D is copied to B or deleted. *)
(***************************************************************************)
MaxTreeOps == 5

TreeCreate == \E size \in AllocSizes : DoCreate(NameA, size, "Num", MaxTreeOps)

TreeMkdir == \E n \in DirNames : DoMkdir(n, MaxTreeOps)

TreeCd == \E n \in CdNames : DoCd(n, MaxTreeOps)

TreeCopy ==
  \E o \in DirNames :
    Handled(CopyHandle(M, CopyRequest(o, NoExt, NameB, NoExt)),
            Req("copy", o, NoExt, NameB, NoExt, 0, ""), MaxTreeOps)

TreeDelete == \E n \in DirNames : DoDelete(n, NoExt, MaxTreeOps)

NextTree == TreeCreate \/ TreeMkdir \/ TreeCd \/ TreeCopy \/ TreeDelete

SpecTree == Init /\ [][NextTree]_vars

(***************************************************************************)
(* C32. copy_file of a directory is atomic on the storage file: when the   *)
(* copy returns an error, the storage file is the one from before the      *)
(* request; no destination directory and no part of its children has been  *)
(* written.                                                                *)
(***************************************************************************)
C32_CopyDirAtomic ==
  [][(last'.op = "copy" /\ last'.name \in DirNames /\ st' = "ok" /\ last'.res # "Ok")
       => file' = file]_vars

\* what identifies a child of a directory
ChildKey(e) == <<e.name, e.extension, is_file(e), e.first_cluster>>
KeySet(tbl) == {ChildKey(tbl[i]) : i \in {j \in 1..Len(tbl) : tbl[j].name # <<>>}}

\* the table of the directory at a path below root, directories only
RECURSIVE ChildrenAt(_, _)
ChildrenAt(tbl, path) ==
  IF path = <<>> THEN Some(tbl)
  ELSE With(FirstIndex(NamedDirs(tbl, Head(path))),
         LAMBDA i : IF i = 0 THEN None
                    ELSE IF tbl[i].children_entries = None THEN None
                    ELSE ChildrenAt(tbl[i].children_entries[1], Tail(path)))

(***************************************************************************)
(* C33. Between two requests the working directory is a directory node of  *)
(* the current tree: it is not a file, the table the engine uses for it is *)
(* present, and that table holds the children the stored tree has for the  *)
(* directory at the working directory's path.                              *)
(***************************************************************************)
C33_WorkingDirectoryIsNode ==
  (st = "ok" /\ Loaded.st = "ok") =>
    /\ ~is_file(wd)
    /\ get_root_table_for_working_directory(M) # None
    /\ With(ChildrenAt(Loaded.root, PathNames(wd)),
         LAMBDA c : c # None
                    /\ KeySet(c[1]) = KeySet(get_root_table_for_working_directory(M)[1]))

\* the cells in use that no chain of a live entry of the tree reaches
Leaked(m) ==
  {c \in Clusters :
     /\ m.fat[c] \notin {Free, Reserved}
     /\ \A i \in 1..Len(LiveEntries(m)) :
          c \notin ChainSet(m.fat, LiveEntries(m)[i].first_cluster, ClusterCount)}

(***************************************************************************)
(* C34. No leaked clusters: in the image the storage file holds after any  *)
(* sequence of requests, every FAT cell that is neither Free nor Reserved  *)
(* lies on the chain of an entry that is live in the directory tree.       *)
(***************************************************************************)
C34_NoLeakedClusters ==
  (st = "ok" /\ Loaded.st = "ok") => Leaked(Loaded) = {}

\* the reserved prefix of a FAT is untouched
ReservedIntact(f) == \A c \in 0..(ReservedCount - 1) : f[c] = Reserved

\* no live entry of the tree starts in, or walks through, the reserved prefix
ChainsAvoidReserved(m) ==
  \A i \in 1..Len(LiveEntries(m)) :
    /\ LiveEntries(m)[i].first_cluster >= ReservedCount
    /\ \A c \in ChainSet(m.fat, LiveEntries(m)[i].first_cluster, ClusterCount) :
         c >= ReservedCount

(***************************************************************************)
(* C35. Reserved region: the FAT cells below ReservedCount are Reserved in *)
(* every state between requests, in memory and in the storage file, no     *)
(* chain of an entry holds one of them, and the FAT create_file leaves at  *)
(* the end of a request, a rollback included, still has them Reserved.     *)
(***************************************************************************)
C35_ReservedRegion ==
  [][/\ st' = "ok" =>
          (ReservedIntact(fat') /\ ReservedIntact(StoredFat(M)') /\ ChainsAvoidReserved(M'))
     /\ last'.op = "create" =>
          With(CreateHandle(M, CreateRequest(last'.name, last'.extension,
                                             last'.size, last'.kind)),
               LAMBDA r : ReservedIntact(r.m.fat))]_vars

(***************************************************************************)
(* C36. create_file always terminates: no create request, in any state and *)
(* for any input, leaves the engine in a walk that never ends; the request *)
(* returns success or an error.                                            *)
(***************************************************************************)
C36_CreateTerminates == last.op = "create" => st # "hang"

(***************************************************************************)
(* C37. cat always terminates: for every file that create_file or          *)
(* copy_file has produced, the walk of get_file_content over the file's    *)
(* chain reaches EndOfChain and the request returns.                       *)
(***************************************************************************)
C37_CatTerminates == last.op = "cat" => st # "hang"

\* the requests that change the image or the working directory
Operations == {"create", "mkdir", "copy", "rename", "delete", "setattr", "cd"}

(***************************************************************************)
(* C38. No public operation aborts: create, mkdir, copy, rename, delete,   *)
(* setattr and cd each return success or an error value in every state;    *)
(* none of them ends the process.                                          *)
(***************************************************************************)
C38_NoAbort == last.op \in Operations => st # "panic"

(***************************************************************************)
(* Several threads issuing requests.  Mutex::lock blocks until the mutex   *)
(* is free; a guard lives to the end of the statement or of the block that *)
(* holds it.  A handler is cut where it asks for a mutex:                  *)
(*   neofetch  config.lock(), then inside it disk_manager.lock()           *)
(*   defrag    disk_manager.lock(), pull_sync, then defragment_disk, whose   *)
(*             DiskManager::new starts with config.lock()                  *)
(*   mkdir     disk_manager.lock() (as every other command)                *)
(***************************************************************************)
MaxLockOps == 3

InFlight == Cardinality({t \in Threads : pc[t] # "idle"})

\* the mutex a thread is blocked on at its position
Wanted(t) ==
  CASE pc[t] \in {"neofetch:config.lock", "defrag:config.lock"} -> "CONFIG_ARC"
    [] pc[t] \in {"neofetch:disk.lock", "defrag:disk.lock", "mkdir:disk.lock"} -> "DISK_ARC"
    [] OTHER -> ""

\* a thread reads a command and enters its handler, up to the first lock()
Enter(t, position) ==
  /\ st = "ok" /\ pc[t] = "idle" /\ ops + InFlight < MaxLockOps
  /\ pc' = [pc EXCEPT ![t] = position]
  /\ UNCHANGED <<fat, root, wd, buf, file, st, last, ops, clean, holder>>

\* lock() returns the guard and the handler runs on to its next lock(), which
\* leaves the engine as m
Acquire(t, position, m) ==
  /\ st = "ok" /\ Wanted(t) # "" /\ holder[Wanted(t)] = 0
  /\ holder' = [holder EXCEPT ![Wanted(t)] = t]
  /\ pc' = [pc EXCEPT ![t] = position]
  /\ fat' = m.fat /\ root' = m.root /\ wd' = m.wd /\ buf' = m.buf
  /\ file' = m.file /\ st' = m.st
  /\ UNCHANGED <<last, ops, clean>>

\* lock() returns the guard, the handler runs to its end and drops its guards
Finish(t, r, q) ==
  /\ Wanted(t) # "" /\ holder[Wanted(t)] = 0
  /\ Served(r, q, MaxLockOps)
  /\ holder' = [l \in Locks |-> IF holder[l] = t THEN 0 ELSE holder[l]]
  /\ pc' = [pc EXCEPT ![t] = "idle"]

NeofetchEnter == \E t \in Threads : Enter(t, "neofetch:config.lock")
NeofetchConfig ==
  \E t \in Threads : pc[t] = "neofetch:config.lock" /\ Acquire(t, "neofetch:disk.lock", M)
NeofetchDisk ==
  \E t \in Threads :
    /\ pc[t] = "neofetch:disk.lock"
    /\ Finish(t, Ok(M), Req("neofetch", <<>>, <<>>, <<>>, <<>>, 0, ""))

DefragEnter == \E t \in Threads : Enter(t, "defrag:disk.lock")
DefragDisk ==
  \E t \in Threads :
    pc[t] = "defrag:disk.lock" /\ Acquire(t, "defrag:config.lock", pull_sync(M))
DefragConfig ==
  \E t \in Threads :
    /\ pc[t] = "defrag:config.lock"
    /\ Finish(t, defragment_disk(M), Req("defrag", <<>>, <<>>, <<>>, <<>>, 0, ""))

MkdirEnter == \E t \in Threads : Enter(t, "mkdir:disk.lock")
MkdirDisk ==
  \E t \in Threads, n \in DirNames :
    /\ pc[t] = "mkdir:disk.lock"
    /\ Finish(t, MakeDirectoryHandle(M, MakeDirectoryRequest(n)),
              Req("mkdir", n, NoExt, <<>>, <<>>, 0, ""))

NextLocks ==
  \/ NeofetchEnter \/ NeofetchConfig \/ NeofetchDisk
  \/ DefragEnter \/ DefragDisk \/ DefragConfig
  \/ MkdirEnter \/ MkdirDisk

SpecLocks == Init /\ [][NextLocks]_vars

(***************************************************************************)
(* C39. Deadlock freedom: with several threads issuing requests, no        *)
(* interleaving leaves two threads each blocked on a mutex the other       *)
(* holds.                                                                  *)
(***************************************************************************)
C39_NoDeadlock ==
  \A t, u \in Threads :
    ~(/\ t # u
      /\ Wanted(t) # "" /\ holder[Wanted(t)] = u
      /\ Wanted(u) # "" /\ holder[Wanted(u)] = t)

(***************************************************************************)
(* Sessions that try to give two entries of a directory one name: files    *)
(* A.T and D.T and a directory D are created, renamed onto each other and  *)
(* copied onto each other, in root and inside D.                           *)
(***************************************************************************)
MaxNameOps == 5

NameCreate == \E n \in {NameA, NameD} : DoCreate(n, ClusterSize, "Num", MaxNameOps)

NameMkdir == \E n \in DirNames : DoMkdir(n, MaxNameOps)

NameCd == \E n \in {NameD, DotDotName} : DoCd(n, MaxNameOps)

\* parse_rename and parse_cp: both names with an extension, or both without
NamePairs == {<<NameA, ExtT, NameD, ExtT>>, <<NameD, NoExt, NameA, NoExt>>}

NameRename ==
  \E p \in NamePairs :
    Handled(RenameHandle(M, RenameRequest(p[1], p[2], p[3], p[4])),
            Req("rename", p[1], p[2], p[3], p[4], 0, ""), MaxNameOps)

NameCopy ==
  \E p \in NamePairs :
    Handled(CopyHandle(M, CopyRequest(p[1], p[2], p[3], p[4])),
            Req("copy", p[1], p[2], p[3], p[4], 0, ""), MaxNameOps)

NextNames == NameCreate \/ NameMkdir \/ NameCd \/ NameRename \/ NameCopy

SpecNames == Init /\ [][NextNames]_vars

\* no two non-empty entries of a table share a (name, extension) pair
UniqueIn(tbl) ==
  \A i, j \in 1..Len(tbl) :
    (i # j /\ tbl[i].name # <<>>) =>
      ~(tbl[i].name = tbl[j].name /\ tbl[i].extension = tbl[j].extension)

\* the same in the table and in every directory below it
RECURSIVE UniqueTree(_, _)
UniqueTree(tbl, fuel) ==
  /\ UniqueIn(tbl)
  /\ \A i \in 1..Len(tbl) :
       (fuel > 0 /\ tbl[i].name \notin {<<>>, DotName, DotDotName}
          /\ tbl[i].children_entries # None)
         => UniqueTree(tbl[i].children_entries[1], fuel - 1)

(***************************************************************************)
(* C40. Name uniqueness: after any sequence of create, mkdir, rename and   *)
(* copy requests, no directory, root or below it, holds two non-empty      *)
(* entries with the same (name, extension) pair: not in the tree the       *)
(* engine holds, not in the table of the working directory, not in the     *)
(* tree the storage file gives.                                            *)
(***************************************************************************)
C40_NamesUnique ==
  st = "ok" =>
    /\ UniqueTree(root, WalkFuel)
    /\ get_root_table_for_working_directory(M) # None
         => UniqueIn(get_root_table_for_working_directory(M)[1])
    /\ Loaded.st = "ok" => UniqueTree(Loaded.root, WalkFuel)

\* a request for a name that is taken was turned down inside a directory that
\* holds more than one entry of its own
C40_Witness ==
  /\ st = "ok" /\ ~is_root(wd) /\ last.res = "DuplicateEntry"
  /\ last.op \in {"create", "rename", "copy"}
  /\ wd.children_entries # None /\ Len(wd.children_entries[1]) >= 4

====
